---- MODULE Spec2Model ----
(***************************************************************************)
(* Verification model of jpv: the leaf XML builders of jpv-lib             *)
(* (ExampleSentence, kanjidic2 Reading) and the conjugation engine of      *)
(* crates/lib (conjugate, reading_permutations, parts_of_speech).          *)
(***************************************************************************)
EXTENDS Integers, Sequences, FiniteSets, TLC

VARIABLES
    bKind,      \* which builder is being driven: "ExampleSentence" or "Reading"
    bText,      \* Builder.text : Option<&str>
    bAttr,      \* Builder.lang (ExampleSentence) resp. Builder.ty (Reading)
    bEvent,     \* the Output most recently passed to poll
    bResult,    \* what that poll returned
    bPolls,     \* number of polls made so far
    entry,      \* the Entry handed to conjugate
    pc,         \* position of conjugate: "start", "loop", "done"
    readings,   \* conjugate's local `readings`
    posSeq,     \* the iteration order of parts_of_speech(entry)
    pi,         \* index of the part of speech being processed (1-based)
    ri,         \* index of the permutation being processed (1-based)
    output,     \* conjugate's local `output`
    trace,      \* history: for each record of output, the <<pos, permutation index>> that produced it
    to_download,  \* build: the sources selected by the configuration, with what their files hold
    force,        \* build: BuildArgs.force
    dbus,         \* build: how the session bus answers the shutdown request
    runPc,        \* build: "idle", "run" or "returned"
    di,           \* build: index of the source the first loop of run looks at
    futures,      \* build: run's local `futures` (the source each one builds)
    fi,           \* build: index of the future being awaited
    indexFile,    \* build: what the file at each source's index_path holds
    loaded,       \* build, history: the sources read_or_download was called for
    shutdownSent, \* build, history: the Shutdown method call went out
    runResult,    \* build: what run returned
    decl,              \* owned: the variants of the enum item handed to implement
    genPc,             \* owned: "idle", "variants", "emit", "done" or "converted"
    vi,                \* owned: index of the variant the loop of implement is at
    ownedDecl,         \* owned: the variants of `output`, the owning shape
    to_owned_variants, \* owned: implement's local `to_owned_variants`
    borrow_variants,   \* owned: implement's local `borrow_variants`
    sample,            \* owned: a value x of the borrowing shape
    ownedSample,       \* owned: to_owned(x) as the generated match computes it
    backSample,        \* owned: borrow(to_owned(x))
    wsPc,          \* ws: "idle", "loop" (inside the select loop of run) or "done"
    last_ping,     \* ws: run's local `last_ping` (0 for None)
    closeElapsed,  \* ws: seconds since close_interval was reset
    pingElapsed,   \* ws: seconds since ping_interval was reset
    inputs,        \* ws: number of client messages and system events handled
    lastIn,        \* ws, history: the message handled last, with the timer around it
    lastOut,       \* ws, history: the frame handed to the socket in that step
    closeFrame,    \* ws: the Close frame sent after the loop, if any
    wsResult,      \* ws: what run returned
    outstanding,   \* ws, history: payload of the most recent Ping not yet answered (0: none)
    sinceReset,    \* ws, history: seconds since the start or the last answering Pong
    pending,       \* ws: events of the broadcast channel the receiver has not seen yet
    channelClosed, \* ws: every sender of the broadcast channel has been dropped
    stop,          \* dbus: the AtomicBool shared by the receive task, State and the future
    port,          \* dbus: State.port
    taskPc,        \* dbus: the blocking task: "idle", "check", "process" or "returned"
    taskResult,    \* dbus: what the blocking task returned
    futurePc,      \* dbus: the future of Setup::Future: "idle", "select" or "done"
    futureResult,  \* dbus: what that future returned
    notified,      \* dbus: the shutdown notification has fired
    fused,         \* dbus: the fused shutdown future has completed
    calls,         \* dbus: number of messages processed
    lastCall,      \* dbus, history: the message processed last, its reply and the state around it
    fieldTy,       \* lifetimes: the type of the field process_fields looks at
    fieldAttr,     \* lifetimes: attr.ty of the field: "Original" or "Type"
    fieldPc,       \* lifetimes: "idle", "field" (before the match on attr.ty) or "done"
    errors,        \* lifetimes: number of errors reported to cx for the field
    qIn,           \* query: the Query that is serialised
    raw,           \* query: the key/value pairs, deserialize's argument
    qOut,          \* query: the Query that deserialize returns
    queryPc,       \* query: "idle", "query", "pairs" or "done"
    query,         \* prompt: Prompt.query
    entries,       \* prompt: Prompt.entries
    characters,    \* prompt: Prompt.characters
    db,            \* prompt: "none" (no component), "local" (props.db is Some) or "remote"
    searches,      \* prompt: the inputs of the fetch::search futures not yet resolved
    analyzing,     \* prompt: number of fetch::analyze futures not yet resolved
    location,      \* prompt: the query pairs of the location, as save_query left them
    issued,        \* prompt, history: the input of the latest refresh
    newest,        \* prompt, history: "none", or how the latest search stands:
                   \*   "pending", "answered" or "failed"
    completed      \* prompt, history: some search has completed

builderVars == <<bKind, bText, bAttr, bEvent, bResult, bPolls>>
conjVars == <<entry, pc, readings, posSeq, pi, ri, output, trace>>
buildVars == <<to_download, force, dbus, runPc, di, futures, fi, indexFile, loaded,
               shutdownSent, runResult>>
ownedVars == <<decl, genPc, vi, ownedDecl, to_owned_variants, borrow_variants,
               sample, ownedSample, backSample>>
channelVars == <<pending, channelClosed>>
wsVars == <<wsPc, last_ping, closeElapsed, pingElapsed, inputs, lastIn, lastOut,
            closeFrame, wsResult, outstanding, sinceReset, channelVars>>
dbusVars == <<stop, port, taskPc, taskResult, futurePc, futureResult, notified, fused,
              calls, lastCall>>
lifeVars == <<fieldTy, fieldAttr, fieldPc, errors>>
queryVars == <<qIn, raw, qOut, queryPc>>
promptVars == <<query, entries, characters, db, searches, analyzing, location, issued,
                newest, completed>>
otherVars == <<dbusVars, lifeVars, queryVars, promptVars>>
vars == <<bKind, bText, bAttr, bEvent, bResult, bPolls,
          entry, pc, readings, posSeq, pi, ri, output, trace,
          buildVars, ownedVars, wsVars, otherVars>>

\* The build command has not been started.
BuildIdle ==
    /\ to_download = <<>>
    /\ force = FALSE
    /\ dbus = "-"
    /\ runPc = "idle"
    /\ di = 0
    /\ futures = <<>>
    /\ fi = 0
    /\ indexFile = <<>>
    /\ loaded = {}
    /\ shutdownSent = FALSE
    /\ runResult = [error |-> "-", source |-> 0]

\* A websocket frame; a Close frame carries a code and a reason.
Frame(type, data) == [type |-> type, data |-> data, code |-> 0, reason |-> "-"]

CloseFrame(code, reason) == [type |-> "Close", data |-> <<>>, code |-> code, reason |-> reason]

NoFrame == Frame("-", <<>>)

\* What the history holds before any message was handled.
NoInput ==
    [seq |-> 0, msg |-> NoFrame, outstanding |-> 0, closeBefore |-> 0, closeAfter |-> 0]

\* No websocket is being served.
WsIdle ==
    /\ wsPc = "idle"
    /\ last_ping = 0
    /\ closeElapsed = 0
    /\ pingElapsed = 0
    /\ inputs = 0
    /\ lastIn = NoInput
    /\ lastOut = NoFrame
    /\ closeFrame = NoFrame
    /\ wsResult = "-"
    /\ outstanding = 0
    /\ sinceReset = 0
    /\ pending = 0
    /\ channelClosed = FALSE

\* A D-Bus message: its type, object path and member (absent: "-").
DbusMessage(type, path, member, args) ==
    [type |-> type, path |-> path, member |-> member, args |-> args]

NoMessage == DbusMessage("-", "-", "-", "-")

\* A reply: a method return carrying a port (0: no arguments), or an error.
Reply(kind, value) == [kind |-> kind, value |-> value]

NoReply == Reply("-", 0)

NoCall == [seq |-> 0, msg |-> NoMessage, reply |-> NoReply, stopBefore |-> FALSE,
           stopAfter |-> FALSE, portBefore |-> 0, portAfter |-> 0]

\* The D-Bus service has not been set up.
DbusIdle ==
    /\ stop = FALSE
    /\ port = 0
    /\ taskPc = "idle"
    /\ taskResult = "-"
    /\ futurePc = "idle"
    /\ futureResult = "-"
    /\ notified = FALSE
    /\ fused = FALSE
    /\ calls = 0
    /\ lastCall = NoCall

\* A syn::Type: its variant, the lifetime it names ("-": none), the
\* lifetimes of a for<..> clause, its element types or inputs, and the
\* output of a fn pointer (an empty sequence: none).
Type(kind, lifetime, bound, elems, ret) ==
    [kind |-> kind, lifetime |-> lifetime, bound |-> bound, elems |-> elems,
     output |-> ret]

\* The path type `u32`.
U32 == Type("Path", "-", {}, <<>>, <<>>)

\* process_fields is not looking at a field.
LifeIdle ==
    /\ fieldTy = U32
    /\ fieldAttr = "-"
    /\ fieldPc = "idle"
    /\ errors = 0

\* struct Query; a text is a sequence of characters, the optional
\* translation a sequence of at most one text.
Query(q, translation, a, i, mode) ==
    [q |-> q, translation |-> translation, a |-> a, i |-> i, mode |-> mode]

\* Query::default()
DefaultQuery == Query(<<>>, <<>>, <<>>, 0, "Unfiltered")

\* No Query is being serialised.
QueryIdle ==
    /\ qIn = DefaultQuery
    /\ raw = <<>>
    /\ qOut = DefaultQuery
    /\ queryPc = "idle"

\* No prompt has been created.
PromptIdle ==
    /\ query = DefaultQuery
    /\ entries = <<>>
    /\ characters = <<>>
    /\ db = "none"
    /\ searches = {}
    /\ analyzing = 0
    /\ location = <<>>
    /\ issued = <<>>
    /\ newest = "none"
    /\ completed = FALSE

OtherIdle == DbusIdle /\ LifeIdle /\ QueryIdle /\ PromptIdle

\* The owned macro has not been invoked.
OwnedIdle ==
    /\ decl = <<>>
    /\ genPc = "idle"
    /\ vi = 0
    /\ ownedDecl = <<>>
    /\ to_owned_variants = <<>>
    /\ borrow_variants = <<>>
    /\ sample = <<>>
    /\ ownedSample = <<>>
    /\ backSample = <<>>

(***************************************************************************)
(* Leaf builders (jpv-lib/src/jmdict/example_sentence.rs,                  *)
(* jpv-lib/src/kanjidic2/reading.rs)                                       *)
(***************************************************************************)

\* Option::None for the builder slots and record fields.
None == "None"

\* Number of poll calls explored per builder.
MaxPolls == 4

\* Slices of the XML buffer that Text and Attribute events may carry.
Values == {"a", "b"}

\* Attribute and element names the parser may report.
Names == {"lang", "r_type", "other"}

NoEvent == [type |-> "-", name |-> "-", value |-> "-"]

TextEvent(v) == [type |-> "Text", name |-> "-", value |-> v]

AttributeEvent(n, v) == [type |-> "Attribute", name |-> n, value |-> v]

OpenEvent(n) == [type |-> "Open", name |-> n, value |-> "-"]

CloseEvent == [type |-> "Close", name |-> "-", value |-> "-"]

\* The values of the parser's Output enum.
Outputs ==
    {TextEvent(v) : v \in Values}
        \cup {AttributeEvent(n, v) : n \in Names, v \in Values}
        \cup {OpenEvent(n) : n \in Names}
        \cup {CloseEvent}

NoRecord == [text |-> "-", attr |-> "-"]

\* Ok(Poll::Pending)
Pending == [tag |-> "Pending", record |-> NoRecord, msg |-> "-", event |-> NoEvent]

\* Ok(Poll::Ready(record))
Ready(text, attr) ==
    [tag |-> "Ready", record |-> [text |-> text, attr |-> attr], msg |-> "-", event |-> NoEvent]

\* Err(..) from Option::context(msg)
Missing(msg) == [tag |-> "Error", record |-> NoRecord, msg |-> msg, event |-> NoEvent]

\* Err(..) from bail!("Unsupported {output:?}")
Unsupported(ev) == [tag |-> "Error", record |-> NoRecord, msg |-> "Unsupported", event |-> ev]

NoResult == [tag |-> "-", record |-> NoRecord, msg |-> "-", event |-> NoEvent]

\* A poll outcome: the builder's slots afterwards and the value returned.
Outcome(text, attr, res) == [text |-> text, attr |-> attr, res |-> res]

ExampleSentencePoll_TextOverwrites(text, lang, ev) ==
    IF ev.type = "Text"
    THEN Outcome(ev.value, lang, Pending)
    ELSE IF ev.type = "Attribute" /\ ev.name = "lang" /\ lang = None
    THEN Outcome(text, ev.value, Pending)
    ELSE IF ev.type = "Close"
    THEN IF text = None
         THEN Outcome(text, lang, Missing("missing text"))
         ELSE Outcome(text, lang, Ready(text, lang))
    ELSE Outcome(text, lang, Unsupported(ev))

ExampleSentencePoll_AnyAttribute(text, lang, ev) ==
    IF ev.type = "Text" /\ text = None
    THEN Outcome(ev.value, lang, Pending)
    ELSE IF ev.type = "Attribute" /\ lang = None
    THEN Outcome(text, ev.value, Pending)
    ELSE IF ev.type = "Close"
    THEN IF text = None
         THEN Outcome(text, lang, Missing("missing text"))
         ELSE Outcome(text, lang, Ready(text, lang))
    ELSE Outcome(text, lang, Unsupported(ev))

\* jmdict::example_sentence::Builder::poll
ExampleSentencePoll(text, lang, ev) ==
    IF ev.type = "Text" /\ text = None
    THEN Outcome(ev.value, lang, Pending)
    ELSE IF ev.type = "Attribute" /\ ev.name = "lang" /\ lang = None
    THEN Outcome(text, ev.value, Pending)
    ELSE IF ev.type = "Close"
    THEN IF text = None
         THEN Outcome(text, lang, Missing("missing text"))
         ELSE Outcome(text, lang, Ready(text, lang))
    ELSE Outcome(text, lang, Unsupported(ev))

\* kanjidic2::reading::Builder::poll (the message for an empty ty slot is
\* the source's, "missing cp_type", written without its quote marks)
ReadingPoll(text, ty, ev) ==
    IF ev.type = "Text" /\ text = None
    THEN Outcome(ev.value, ty, Pending)
    ELSE IF ev.type = "Attribute" /\ ev.name = "r_type" /\ ty = None
    THEN Outcome(text, ev.value, Pending)
    ELSE IF ev.type = "Close"
    THEN IF text = None
         THEN Outcome(text, ty, Missing("missing text"))
         ELSE IF ty = None
         THEN Outcome(text, ty, Missing("missing cp_type"))
         ELSE Outcome(text, ty, Ready(text, ty))
    ELSE Outcome(text, ty, Unsupported(ev))

\* The attribute each builder stores in its second slot.
OwnAttribute(kind) == IF kind = "ExampleSentence" THEN "lang" ELSE "r_type"

BuilderIdle ==
    /\ bKind = "-"
    /\ bText = None
    /\ bAttr = None
    /\ bEvent = NoEvent
    /\ bResult = NoResult
    /\ bPolls = 0

\* Builder::default() for either builder.
BuilderInit ==
    /\ bKind \in {"ExampleSentence", "Reading"}
    /\ bText = None
    /\ bAttr = None
    /\ bEvent = NoEvent
    /\ bResult = NoResult
    /\ bPolls = 0

\* One call of poll with an arbitrary parser event.
Poll ==
    /\ bPolls < MaxPolls
    /\ \E ev \in Outputs :
        LET o == IF bKind = "ExampleSentence"
                 THEN ExampleSentencePoll(bText, bAttr, ev)
                 ELSE ReadingPoll(bText, bAttr, ev)
        IN /\ bText' = o.text
           /\ bAttr' = o.attr
           /\ bEvent' = ev
           /\ bResult' = o.res
    /\ bPolls' = bPolls + 1
    /\ UNCHANGED <<bKind, entry, pc, readings, posSeq, pi, ri, output, trace>>
    /\ UNCHANGED <<buildVars, ownedVars, wsVars, otherVars>>

ConjIdle ==
    /\ entry = <<>>
    /\ pc = "idle"
    /\ readings = <<>>
    /\ posSeq = <<>>
    /\ pi = 0
    /\ ri = 0
    /\ output = <<>>
    /\ trace = <<>>

BuilderSpecInit == BuilderInit /\ ConjIdle /\ BuildIdle /\ OwnedIdle /\ WsIdle /\ OtherIdle

BuilderNext == Poll

BuilderSpec == BuilderSpecInit /\ [][BuilderNext]_vars

(***************************************************************************)
(* Conjugation engine (crates/lib/src/inflection/conjugate.rs)             *)
(***************************************************************************)

\* Texts are sequences of Unicode scalar values. The hiragana that the
\* engine's string literals are made of, by romanised name.
Kana ==
    [u |-> 12358, tsu |-> 12388, ru |-> 12427, ku |-> 12367, gu |-> 12368,
     mu |-> 12416, bu |-> 12406, nu |-> 12396, su |-> 12377, i |-> 12356,
     te |-> 12390, de |-> 12391, xtsu |-> 12387, n |-> 12435, shi |-> 12375,
     a |-> 12354, o |-> 12362, ma |-> 12414, ta |-> 12383, da |-> 12384,
     na |-> 12394, ka |-> 12363, ki |-> 12365, ko |-> 12371, yo |-> 12424,
     ra |-> 12425, ri |-> 12426, wa |-> 12431, chi |-> 12385, ji |-> 12376,
     xya |-> 12419, mi |-> 12415, sa |-> 12373, ha |-> 12399, se |-> 12379,
     ga |-> 12364, gi |-> 12366, ba |-> 12400, bi |-> 12403, ni |-> 12395,
     ke |-> 12369]

\* u8::MAX, the kanji index that stands for "no kanji" in a Reading key.
U8Max == 255

\* Most kanji elements, reading elements and senses of the entries explored.
MaxKanji == 2

MaxReadings == 2

MaxSenses == 2

\* Number of kanji elements of the one long entry explored: its last two
\* kanji elements sit at positions U8Max and U8Max + 1.
LongKanji == U8Max + 2

\* str::strip_suffix / ends_with on texts.
EndsWith(t, suf) ==
    /\ Len(t) >= Len(suf)
    /\ SubSeq(t, Len(t) - Len(suf) + 1, Len(t)) = suf

\* The text without its last n characters (all of it gone when shorter).
DropLast(t, n) == IF Len(t) >= n THEN SubSeq(t, 1, Len(t) - n) ELSE <<>>

\* The last character of a text, 0 when the text is empty (next_back() = None).
LastChar(t) == IF Len(t) = 0 THEN 0 ELSE t[Len(t)]

\* The i-th kanji character used to write the entries' kanji texts.
KanjiChar(i) == 19968 + i

\* PartOfSpeech values that occur in the explored entries, in enum order.
PosOrder ==
    <<"VerbIchidan", "VerbGodanB", "VerbGodanG", "VerbGodanK", "VerbGodanKS",
      "VerbGodanM", "VerbGodanN", "VerbGodanR",
      "VerbKuru", "VerbSuruIncluded", "AdjectiveI", "AdjectiveIx", "AdjectiveNa",
      "Noun">>

IchidanPos == {"VerbIchidan", "VerbIchidanS"}

GodanPos ==
    {"VerbGodanAru", "VerbGodanB", "VerbGodanG", "VerbGodanK", "VerbGodanM",
     "VerbGodanN", "VerbGodanR", "VerbGodanRI", "VerbGodanS", "VerbGodanT",
     "VerbGodanU", "VerbGodanUS", "VerbGodanUru"}

SuruPos == {"VerbSuruSpecial", "VerbSuruIncluded"}

\* The parts of speech that have an arm of their own in conjugate's match.
SupportedPos ==
    IchidanPos \cup GodanPos \cup SuruPos
        \cup {"VerbGodanKS", "VerbKuru", "AdjectiveI", "AdjectiveIx", "AdjectiveNa"}

\* ReadingElement::applies_to.
applies_to(reading, text) ==
    /\ ~reading.no_kanji
    /\ (reading.restrict = {} \/ text \in reading.restrict)

\* A permutation: Option<(usize, &str)> for the kanji, (usize, &str) for the reading.
NoKanji == [some |-> FALSE, index |-> 0, text |-> <<>>]

SomeKanji(i, text) == [some |-> TRUE, index |-> i, text |-> text]

Permutation(kanji, j, text) == [kanji |-> kanji, reading |-> [index |-> j, text |-> text]]

\* The iteration space of reading_permutations' nested loops, in loop
\* order: reading index j (outer), kanji index i (inner), both 0-based; a
\* reading that takes the `continue` arm is visited once, as i = 0.
LoopOrder(e) ==
    LET width == IF Len(e.kanji_elements) = 0 THEN 1 ELSE Len(e.kanji_elements)
    IN [n \in 1..(Len(e.reading_elements) * width) |->
            [j |-> (n - 1) \div width, i |-> (n - 1) % width]]

\* The pair pushed at a visited point of the iteration space.
PairAt(e, direct, c) ==
    IF direct
    THEN Permutation(NoKanji, c.j, e.reading_elements[c.j + 1].text)
    ELSE Permutation(SomeKanji(c.i, e.kanji_elements[c.i + 1]),
                     c.j, e.reading_elements[c.j + 1].text)

reading_permutations_NoEmptyKanjiCase(e) ==
    LET Direct(c) == e.reading_elements[c.j + 1].no_kanji
        Pushes(c) ==
            IF Direct(c)
            THEN c.i = 0
            ELSE /\ Len(e.kanji_elements) > 0
                 /\ applies_to(e.reading_elements[c.j + 1], e.kanji_elements[c.i + 1])
        pushed == SelectSeq(LoopOrder(e), Pushes)
    IN [n \in 1..Len(pushed) |-> PairAt(e, Direct(pushed[n]), pushed[n])]

reading_permutations_KanjiOuter(e) ==
    LET Direct(c) ==
            e.reading_elements[c.j + 1].no_kanji \/ Len(e.kanji_elements) = 0
        Pushes(c) ==
            IF Direct(c)
            THEN c.i = 0
            ELSE applies_to(e.reading_elements[c.j + 1], e.kanji_elements[c.i + 1])
        width == IF Len(e.kanji_elements) = 0 THEN 1 ELSE Len(e.kanji_elements)
        order == [n \in 1..(Len(e.reading_elements) * width) |->
                     [j |-> (n - 1) % Len(e.reading_elements),
                      i |-> (n - 1) \div Len(e.reading_elements)]]
        pushed == SelectSeq(order, Pushes)
    IN [n \in 1..Len(pushed) |-> PairAt(e, Direct(pushed[n]), pushed[n])]

\* reading_permutations
reading_permutations(e) ==
    LET Direct(c) ==
            e.reading_elements[c.j + 1].no_kanji \/ Len(e.kanji_elements) = 0
        Pushes(c) ==
            IF Direct(c)
            THEN c.i = 0
            ELSE applies_to(e.reading_elements[c.j + 1], e.kanji_elements[c.i + 1])
        pushed == SelectSeq(LoopOrder(e), Pushes)
    IN [n \in 1..Len(pushed) |-> PairAt(e, Direct(pushed[n]), pushed[n])]

parts_of_speech_set(e) == UNION {e.senses[i] : i \in 1..Len(e.senses)}

\* parts_of_speech, as the sequence in which conjugate's outer loop visits the set.
parts_of_speech(e) ==
    SelectSeq(PosOrder, LAMBDA p : p \in parts_of_speech_set(e))

\* kana::Fragments: the kanji part, the reading part and the shared suffix
\* of a form, each flattened to one text.
Fragments(kanji, reading, suffix) == [kanji |-> kanji, reading |-> reading, suffix |-> suffix]

\* Fragments::default()
DefaultFragments == Fragments(<<>>, <<>>, <<>>)

\* Fragments::is_empty
is_empty(f) == f.kanji = <<>> /\ f.reading = <<>> /\ f.suffix = <<>>

\* Fragments::concat
concat(f, suffix) == [f EXCEPT !.suffix = @ \o suffix]

\* The written and the read surface of a form.
KanjiSurface(f) == f.kanji \o f.suffix

ReadingSurface(f) == f.reading \o f.suffix

\* BTreeMap::new() and BTreeMap::insert for the inflection table, whose keys
\* are sets of Form flags (inflect!).
EmptyTable == [key \in {} |-> DefaultFragments]

Insert(table, key, frag) == (key :> frag) @@ table

\* A row handed to a populate! macro: the flags and the suffix pieces.
Row(flags, prefix, suffix) == [flags |-> flags, prefix |-> prefix, suffix |-> suffix]

\* Inserts every item's fragments under its key, in order.
RECURSIVE InsertAll(_, _)
InsertAll(table, items) ==
    IF items = <<>>
    THEN table
    ELSE InsertAll(Insert(table, Head(items).key, Head(items).frag), Tail(items))

\* One populate! expansion per row: under the row's flags joined with
\* flags, base followed by infix and the row's pieces.
Populate(table, rows, flags, base, infix) ==
    InsertAll(table,
              [n \in 1..Len(rows) |->
                  [key |-> flags \cup rows[n].flags,
                   frag |-> concat(base, infix \o rows[n].prefix \o rows[n].suffix)]])

\* ichidan!: the endings appended to an ichidan stem.
IchidanRows ==
    <<Row({}, <<>>, <<Kana.ru>>),
      Row({"Polite"}, <<>>, <<Kana.ma, Kana.su>>),
      Row({"Negative"}, <<>>, <<Kana.na, Kana.i>>),
      Row({"Past"}, <<>>, <<Kana.ta>>)>>

\* godan::{U, TSU, RU, KU, GU, MU, BU, NU, SU, IKU}: one row of the godan table.
Godan(a, i, u, te, te_stem, past, de) ==
    [a |-> a, i |-> i, u |-> u, te |-> te, te_stem |-> te_stem, past |-> past, de |-> de]

GodanU == Godan(Kana.wa, Kana.i, Kana.u, <<Kana.xtsu, Kana.te>>, <<Kana.xtsu>>, <<Kana.xtsu, Kana.ta>>, FALSE)

GodanTSU == Godan(Kana.ta, Kana.chi, Kana.tsu, <<Kana.xtsu, Kana.te>>, <<Kana.xtsu>>, <<Kana.xtsu, Kana.ta>>, FALSE)

GodanRU == Godan(Kana.ra, Kana.ri, Kana.ru, <<Kana.xtsu, Kana.te>>, <<Kana.xtsu>>, <<Kana.xtsu, Kana.ta>>, FALSE)

GodanKU == Godan(Kana.ka, Kana.ki, Kana.ku, <<Kana.i, Kana.te>>, <<Kana.i>>, <<Kana.i, Kana.ta>>, FALSE)

GodanGU == Godan(Kana.ga, Kana.gi, Kana.gu, <<Kana.i, Kana.de>>, <<Kana.i>>, <<Kana.i, Kana.da>>, TRUE)

GodanMU == Godan(Kana.ma, Kana.mi, Kana.mu, <<Kana.n, Kana.de>>, <<Kana.n>>, <<Kana.n, Kana.da>>, TRUE)

GodanBU == Godan(Kana.ba, Kana.bi, Kana.bu, <<Kana.n, Kana.de>>, <<Kana.n>>, <<Kana.n, Kana.da>>, TRUE)

GodanNU == Godan(Kana.na, Kana.ni, Kana.nu, <<Kana.n, Kana.de>>, <<Kana.n>>, <<Kana.n, Kana.da>>, TRUE)

GodanSU == Godan(Kana.sa, Kana.shi, Kana.su, <<Kana.shi, Kana.te>>, <<Kana.shi>>, <<Kana.shi, Kana.ta>>, FALSE)

GodanIKU == Godan(Kana.ka, Kana.ki, Kana.ku, <<Kana.xtsu, Kana.te>>, <<Kana.xtsu>>, <<Kana.xtsu, Kana.ta>>, FALSE)

\* godan!(populate, g, prefix): the endings of godan row g after prefix.
GodanRows(g, prefix) ==
    <<Row({}, <<>>, prefix \o <<g.u>>),
      Row({"Polite"}, <<>>, prefix \o <<g.i, Kana.ma, Kana.su>>),
      Row({"Negative"}, <<>>, prefix \o <<g.a, Kana.na, Kana.i>>),
      Row({"Past"}, <<>>, prefix \o g.past)>>

\* suru!: stem alternation and ending of each form of suru.
SuruRows ==
    <<Row({}, <<Kana.su>>, <<Kana.ru>>),
      Row({"Polite"}, <<Kana.shi>>, <<Kana.ma, Kana.su>>),
      Row({"Negative"}, <<Kana.shi>>, <<Kana.na, Kana.i>>),
      Row({"Past"}, <<Kana.shi>>, <<Kana.ta>>),
      Row({"Te"}, <<Kana.shi>>, <<Kana.te>>)>>

\* kuru!: stem alternation and ending of each form of kuru.
KuruRows ==
    <<Row({}, <<Kana.ku>>, <<Kana.ru>>),
      Row({"Polite"}, <<Kana.ki>>, <<Kana.ma, Kana.su>>),
      Row({"Negative"}, <<Kana.ko>>, <<Kana.na, Kana.i>>),
      Row({"Past"}, <<Kana.ki>>, <<Kana.ta>>),
      Row({"Te"}, <<Kana.ki>>, <<Kana.te>>)>>

\* What one arm of the match on pos leaves behind: `continue`, or the
\* locals inflections, kind, de_conjugation and stem.
Skipped ==
    [skip |-> TRUE, inflections |-> EmptyTable, kind |-> "-",
     de_conjugation |-> FALSE, stem |-> DefaultFragments]

Matched(inflections, kind, de_conjugation, stem) ==
    [skip |-> FALSE, inflections |-> inflections, kind |-> kind,
     de_conjugation |-> de_conjugation, stem |-> stem]

\* inflections!{k, r, [flags], (suffix), ...} and populate! with Fragments::new([k], [r], suffix)
Plain(table, k, r, rows) == Populate(table, rows, {}, Fragments(k, r, <<>>), <<>>)

\* PartOfSpeech::VerbIchidan | PartOfSpeech::VerbIchidanS
IchidanArm(kanji_text, reading_text) ==
    IF EndsWith(kanji_text, <<Kana.ru>>) /\ EndsWith(reading_text, <<Kana.ru>>)
    THEN LET k == DropLast(kanji_text, 1)
             r == DropLast(reading_text, 1)
         IN Matched(Plain(Insert(EmptyTable, {"Te"}, Fragments(k, r, <<Kana.te>>)),
                          k, r, IchidanRows),
                    "Verb", FALSE, Fragments(k, r, <<Kana.xtsu>>))
    ELSE Skipped

GodanKSArm_RegularKu(kanji_text, reading_text) ==
    IF EndsWith(kanji_text, <<Kana.ku>>) /\ EndsWith(reading_text, <<Kana.ku>>)
    THEN LET k == DropLast(kanji_text, 1)
             r == DropLast(reading_text, 1)
             g == GodanKU
         IN Matched(Plain(Insert(EmptyTable, {"Te"}, Fragments(k, r, g.te)),
                          k, r, GodanRows(g, <<>>)),
                    "Verb", g.de, Fragments(k, r, g.te_stem))
    ELSE Skipped

\* PartOfSpeech::VerbGodanKS
GodanKSArm(kanji_text, reading_text) ==
    IF EndsWith(kanji_text, <<Kana.ku>>) /\ EndsWith(reading_text, <<Kana.ku>>)
    THEN LET k == DropLast(kanji_text, 1)
             r == DropLast(reading_text, 1)
             g == GodanIKU
         IN Matched(Plain(Insert(EmptyTable, {"Te"}, Fragments(k, r, g.te)),
                          k, r, GodanRows(g, <<>>)),
                    "Verb", g.de, Fragments(k, r, g.te_stem))
    ELSE Skipped

\* The godan row chosen by the last character of the kanji text.
GodanByEnding ==
    [c \in {Kana.u, Kana.tsu, Kana.ru, Kana.ku, Kana.gu, Kana.mu, Kana.bu, Kana.nu, Kana.su} |->
        CASE c = Kana.u -> GodanU
          [] c = Kana.tsu -> GodanTSU
          [] c = Kana.ru -> GodanRU
          [] c = Kana.ku -> GodanKU
          [] c = Kana.gu -> GodanGU
          [] c = Kana.mu -> GodanMU
          [] c = Kana.bu -> GodanBU
          [] c = Kana.nu -> GodanNU
          [] c = Kana.su -> GodanSU]

\* PartOfSpeech::VerbGodanAru | ... | PartOfSpeech::VerbGodanUru
GodanArm(kanji_text, reading_text) ==
    IF LastChar(kanji_text) \in DOMAIN GodanByEnding
    THEN LET g == GodanByEnding[LastChar(kanji_text)]
             k == DropLast(kanji_text, 1)
             r == DropLast(reading_text, 1)
         IN Matched(Plain(Insert(EmptyTable, {"Te"}, Fragments(k, r, g.te)),
                          k, r, GodanRows(g, <<>>)),
                    "Verb", g.de, Fragments(k, r, g.te_stem))
    ELSE Skipped

\* The two populate! variants shared by the suru and kuru arms: the verb
\* written in kana (own == TRUE), or hidden in the last kanji.
Irregular(kanji_text, reading_text, own, rows) ==
    LET kanji_prefix == DropLast(kanji_text, 2)
        reading_prefix == DropLast(reading_text, 2)
        kanji_stem == DropLast(kanji_text, 1)
    IN IF own
       THEN Populate(EmptyTable, rows, {}, Fragments(kanji_prefix, reading_prefix, <<>>), <<>>)
       ELSE InsertAll(EmptyTable,
                      [n \in 1..Len(rows) |->
                          [key |-> rows[n].flags,
                           frag |-> Fragments(kanji_stem, reading_prefix \o rows[n].prefix,
                                              rows[n].suffix)]])

\* PartOfSpeech::VerbSuruSpecial | PartOfSpeech::VerbSuruIncluded
SuruArm(kanji_text, reading_text) ==
    IF /\ EndsWith(kanji_text, <<Kana.ru>>)
       /\ Len(kanji_text) >= 2
       /\ EndsWith(reading_text, <<Kana.su, Kana.ru>>)
    THEN Matched(Irregular(kanji_text, reading_text,
                           kanji_text[Len(kanji_text) - 1] = Kana.su, SuruRows),
                 "Verb", FALSE, DefaultFragments)
    ELSE Skipped

\* PartOfSpeech::VerbKuru
KuruArm(kanji_text, reading_text) ==
    IF /\ EndsWith(kanji_text, <<Kana.ru>>)
       /\ Len(kanji_text) >= 2
       /\ EndsWith(reading_text, <<Kana.ku, Kana.ru>>)
    THEN Matched(Irregular(kanji_text, reading_text,
                           kanji_text[Len(kanji_text) - 1] = Kana.ku, KuruRows),
                 "Verb", FALSE, DefaultFragments)
    ELSE Skipped

\* PartOfSpeech::AdjectiveI
AdjectiveIArm(kanji_text, reading_text) ==
    IF EndsWith(kanji_text, <<Kana.i>>) /\ EndsWith(reading_text, <<Kana.i>>)
    THEN Matched(Plain(EmptyTable, DropLast(kanji_text, 1), DropLast(reading_text, 1),
                    <<Row({}, <<>>, <<Kana.i>>),
                      Row({"Polite"}, <<>>, <<Kana.i, Kana.de, Kana.su>>),
                      Row({"Past"}, <<>>, <<Kana.ka, Kana.xtsu, Kana.ta>>),
                      Row({"Past", "Polite"}, <<>>, <<Kana.ka, Kana.xtsu, Kana.ta, Kana.de, Kana.su>>),
                      Row({"Negative"}, <<>>, <<Kana.ku, Kana.na, Kana.i>>),
                      Row({"Negative", "Polite"}, <<>>, <<Kana.ku, Kana.na, Kana.i, Kana.de, Kana.su>>),
                      Row({"Past", "Negative"}, <<>>, <<Kana.na, Kana.ka, Kana.xtsu, Kana.ta>>),
                      Row({"Past", "Negative", "Polite"}, <<>>,
                          <<Kana.na, Kana.ka, Kana.xtsu, Kana.ta, Kana.de, Kana.su>>)>>),
                 "Adjective", FALSE, DefaultFragments)
    ELSE Skipped

AdjectiveIxArm_YokuNakatta(kanji_text, reading_text) ==
    IF EndsWith(kanji_text, <<Kana.i, Kana.i>>) /\ EndsWith(reading_text, <<Kana.i, Kana.i>>)
    THEN Matched(Plain(EmptyTable, DropLast(kanji_text, 2), DropLast(reading_text, 2),
                    <<Row({}, <<>>, <<Kana.i, Kana.i>>),
                      Row({"Polite"}, <<>>, <<Kana.i, Kana.i, Kana.de, Kana.su>>),
                      Row({"Past"}, <<>>, <<Kana.yo, Kana.ka, Kana.xtsu, Kana.ta>>),
                      Row({"Past", "Polite"}, <<>>,
                          <<Kana.yo, Kana.ka, Kana.xtsu, Kana.ta, Kana.de, Kana.su>>),
                      Row({"Negative"}, <<>>, <<Kana.yo, Kana.ku, Kana.na, Kana.i>>),
                      Row({"Negative", "Polite"}, <<>>,
                          <<Kana.yo, Kana.ku, Kana.na, Kana.i, Kana.de, Kana.su>>),
                      Row({"Past", "Negative"}, <<>>,
                          <<Kana.yo, Kana.ku, Kana.na, Kana.ka, Kana.xtsu, Kana.ta>>),
                      Row({"Past", "Negative", "Polite"}, <<>>,
                          <<Kana.yo, Kana.na, Kana.ka, Kana.xtsu, Kana.ta, Kana.de, Kana.su>>)>>),
                 "Adjective", FALSE, DefaultFragments)
    ELSE Skipped

AdjectiveIxArm_RegularPast(kanji_text, reading_text) ==
    IF EndsWith(kanji_text, <<Kana.i, Kana.i>>) /\ EndsWith(reading_text, <<Kana.i, Kana.i>>)
    THEN Matched(Plain(EmptyTable, DropLast(kanji_text, 2), DropLast(reading_text, 2),
                    <<Row({}, <<>>, <<Kana.i, Kana.i>>),
                      Row({"Polite"}, <<>>, <<Kana.i, Kana.i, Kana.de, Kana.su>>),
                      Row({"Past"}, <<>>, <<Kana.i, Kana.ka, Kana.xtsu, Kana.ta>>),
                      Row({"Past", "Polite"}, <<>>,
                          <<Kana.yo, Kana.ka, Kana.xtsu, Kana.ta, Kana.de, Kana.su>>),
                      Row({"Negative"}, <<>>, <<Kana.yo, Kana.ku, Kana.na, Kana.i>>),
                      Row({"Negative", "Polite"}, <<>>,
                          <<Kana.yo, Kana.ku, Kana.na, Kana.i, Kana.de, Kana.su>>),
                      Row({"Past", "Negative"}, <<>>,
                          <<Kana.yo, Kana.na, Kana.ka, Kana.xtsu, Kana.ta>>),
                      Row({"Past", "Negative", "Polite"}, <<>>,
                          <<Kana.yo, Kana.na, Kana.ka, Kana.xtsu, Kana.ta, Kana.de, Kana.su>>)>>),
                 "Adjective", FALSE, DefaultFragments)
    ELSE Skipped

\* PartOfSpeech::AdjectiveIx
AdjectiveIxArm(kanji_text, reading_text) ==
    IF EndsWith(kanji_text, <<Kana.i, Kana.i>>) /\ EndsWith(reading_text, <<Kana.i, Kana.i>>)
    THEN Matched(Plain(EmptyTable, DropLast(kanji_text, 2), DropLast(reading_text, 2),
                    <<Row({}, <<>>, <<Kana.i, Kana.i>>),
                      Row({"Polite"}, <<>>, <<Kana.i, Kana.i, Kana.de, Kana.su>>),
                      Row({"Past"}, <<>>, <<Kana.yo, Kana.ka, Kana.xtsu, Kana.ta>>),
                      Row({"Past", "Polite"}, <<>>,
                          <<Kana.yo, Kana.ka, Kana.xtsu, Kana.ta, Kana.de, Kana.su>>),
                      Row({"Negative"}, <<>>, <<Kana.yo, Kana.ku, Kana.na, Kana.i>>),
                      Row({"Negative", "Polite"}, <<>>,
                          <<Kana.yo, Kana.ku, Kana.na, Kana.i, Kana.de, Kana.su>>),
                      Row({"Past", "Negative"}, <<>>,
                          <<Kana.yo, Kana.na, Kana.ka, Kana.xtsu, Kana.ta>>),
                      Row({"Past", "Negative", "Polite"}, <<>>,
                          <<Kana.yo, Kana.na, Kana.ka, Kana.xtsu, Kana.ta, Kana.de, Kana.su>>)>>),
                 "Adjective", FALSE, DefaultFragments)
    ELSE Skipped

\* PartOfSpeech::AdjectiveNa
AdjectiveNaArm(kanji_text, reading_text) ==
    Matched(Plain(EmptyTable, kanji_text, reading_text,
               <<Row({}, <<>>, <<Kana.da>>),
                 Row({"Polite"}, <<>>, <<Kana.de, Kana.su>>),
                 Row({"Past"}, <<>>, <<Kana.da, Kana.xtsu, Kana.ta>>),
                 Row({"Past", "Polite"}, <<>>, <<Kana.de, Kana.shi, Kana.ta>>),
                 Row({"Negative"}, <<>>, <<Kana.de, Kana.ha, Kana.na, Kana.i>>),
                 Row({"Negative", "Polite"}, <<>>,
                     <<Kana.de, Kana.ha, Kana.a, Kana.ri, Kana.ma, Kana.se, Kana.n>>),
                 Row({"Past", "Negative"}, <<>>,
                     <<Kana.de, Kana.ha, Kana.na, Kana.ka, Kana.xtsu, Kana.ta>>),
                 Row({"Past", "Negative", "Polite"}, <<>>,
                     <<Kana.de, Kana.ha, Kana.a, Kana.ri, Kana.ma, Kana.se, Kana.n,
                       Kana.de, Kana.shi, Kana.ta>>)>>),
            "Adjective", FALSE, DefaultFragments)

MatchPos_NounAsAdjectiveNa(pos, kanji_text, reading_text) ==
    CASE pos \in IchidanPos -> IchidanArm(kanji_text, reading_text)
      [] pos = "VerbGodanKS" -> GodanKSArm(kanji_text, reading_text)
      [] pos \in GodanPos -> GodanArm(kanji_text, reading_text)
      [] pos \in SuruPos -> SuruArm(kanji_text, reading_text)
      [] pos = "VerbKuru" -> KuruArm(kanji_text, reading_text)
      [] pos = "AdjectiveI" -> AdjectiveIArm(kanji_text, reading_text)
      [] pos = "AdjectiveIx" -> AdjectiveIxArm(kanji_text, reading_text)
      [] OTHER -> AdjectiveNaArm(kanji_text, reading_text)

\* conjugate: the match on pos.
MatchPos(pos, kanji_text, reading_text) ==
    CASE pos \in IchidanPos -> IchidanArm(kanji_text, reading_text)
      [] pos = "VerbGodanKS" -> GodanKSArm(kanji_text, reading_text)
      [] pos \in GodanPos -> GodanArm(kanji_text, reading_text)
      [] pos \in SuruPos -> SuruArm(kanji_text, reading_text)
      [] pos = "VerbKuru" -> KuruArm(kanji_text, reading_text)
      [] pos = "AdjectiveI" -> AdjectiveIArm(kanji_text, reading_text)
      [] pos = "AdjectiveIx" -> AdjectiveIxArm(kanji_text, reading_text)
      [] pos = "AdjectiveNa" -> AdjectiveNaArm(kanji_text, reading_text)
      [] OTHER -> Skipped

TeDerivations_NoShort(inflections) ==
    IF {"Te"} \in DOMAIN inflections
    THEN LET p == inflections[{"Te"}]
             Aux(table, flag, rows) == Populate(table, rows, {flag, "Te"}, p, <<>>)
             t2 == Populate(inflections, IchidanRows, {"TeIru", "Te"}, p, <<Kana.i>>)
             t3 == Aux(t2, "TeAru", GodanRows(GodanRU, <<Kana.a>>))
             t4 == Aux(t3, "TeIku", GodanRows(GodanIKU, <<Kana.i>>))
             t5 == Aux(t4, "TeShimau", GodanRows(GodanU, <<Kana.shi, Kana.ma>>))
             t6 == Aux(t5, "TeOku", GodanRows(GodanKU, <<Kana.o>>))
             t7 == Insert(t6, {"Te", "TeOku", "Short"}, concat(p, <<Kana.ku>>))
         IN Aux(t7, "TeKuru", KuruRows)
    ELSE inflections

\* conjugate: the auxiliary chains grafted onto an existing te-form.
TeDerivations(inflections) ==
    IF {"Te"} \in DOMAIN inflections
    THEN LET p == inflections[{"Te"}]
             Aux(table, flag, rows) == Populate(table, rows, {flag, "Te"}, p, <<>>)
             t1 == Insert(inflections, {"TeIru", "Te", "Short"}, concat(p, <<Kana.ru>>))
             t2 == Populate(t1, IchidanRows, {"TeIru", "Te"}, p, <<Kana.i>>)
             t3 == Aux(t2, "TeAru", GodanRows(GodanRU, <<Kana.a>>))
             t4 == Aux(t3, "TeIku", GodanRows(GodanIKU, <<Kana.i>>))
             t5 == Aux(t4, "TeShimau", GodanRows(GodanU, <<Kana.shi, Kana.ma>>))
             t6 == Aux(t5, "TeOku", GodanRows(GodanKU, <<Kana.o>>))
             t7 == Insert(t6, {"Te", "TeOku", "Short"}, concat(p, <<Kana.ku>>))
         IN Aux(t7, "TeKuru", KuruRows)
    ELSE inflections

Chau_AlwaysCha(inflections, stem, de_conjugation) ==
    IF ~is_empty(stem)
    THEN Populate(inflections, GodanRows(GodanU, <<Kana.chi, Kana.xya>>),
                  {"Chau"}, stem, <<>>)
    ELSE inflections

\* conjugate: the Chau contraction built on a non-empty stem.
Chau(inflections, stem, de_conjugation) ==
    IF ~is_empty(stem)
    THEN Populate(inflections,
                  GodanRows(GodanU, IF de_conjugation
                                    THEN <<Kana.ji, Kana.xya>>
                                    ELSE <<Kana.chi, Kana.xya>>),
                  {"Chau"}, stem, <<>>)
    ELSE inflections

ReadingKey_NoneAsZero(perm) ==
    [kanji |-> IF perm.kanji.some THEN perm.kanji.index % (U8Max + 1) ELSE 0,
     reading |-> perm.reading.index % (U8Max + 1)]

\* conjugate: the Reading key of a permutation (usize indices cast with `as u8`).
ReadingKey(perm) ==
    [kanji |-> IF perm.kanji.some THEN perm.kanji.index % (U8Max + 1) ELSE U8Max,
     reading |-> perm.reading.index % (U8Max + 1)]

NoInflections == [skip |-> TRUE, record |-> <<>>]

\* conjugate: the body of the inner loop for one part of speech and permutation.
ConjugateOne(pos, perm) ==
    LET kanji_text == IF perm.kanji.some THEN perm.kanji.text ELSE perm.reading.text
        reading_text == perm.reading.text
        m == MatchPos(pos, kanji_text, reading_text)
    IN IF m.skip
       THEN NoInflections
       ELSE [skip |-> FALSE,
             record |->
                [reading |-> ReadingKey(perm),
                 dictionary |-> [kanji |-> kanji_text, reading |-> reading_text],
                 inflections |-> Chau(TeDerivations(m.inflections), m.stem, m.de_conjugation),
                 kind |-> m.kind]]

\* The entries explored. A family fixes the ending of its kanji texts, the
\* endings its reading texts may have (the longer one fits the family's
\* classes) and the parts of speech its senses may carry.
Family(kanji_ending, reading_endings, pos) ==
    [kanji_ending |-> kanji_ending, reading_endings |-> reading_endings, pos |-> pos]

Families ==
    {Family(<<Kana.ru>>, {<<Kana.ru>>, <<>>}, {"VerbIchidan", "VerbGodanR", "Noun"}),
     Family(<<Kana.mu>>, {<<Kana.mu>>, <<>>}, {"VerbGodanM", "AdjectiveNa"}),
     Family(<<Kana.ku>>, {<<Kana.ku>>, <<>>}, {"VerbGodanKS", "VerbGodanK"}),
     Family(<<Kana.gu>>, {<<Kana.gu>>, <<>>}, {"VerbGodanG", "VerbGodanKS"}),
     Family(<<Kana.nu>>, {<<Kana.nu>>, <<>>}, {"VerbGodanN"}),
     Family(<<Kana.bu>>, {<<Kana.bu>>, <<>>}, {"VerbGodanB"}),
     Family(<<Kana.ru>>, {<<Kana.su, Kana.ru>>, <<Kana.ru>>}, {"VerbSuruIncluded", "Noun"}),
     Family(<<Kana.ru>>, {<<Kana.ku, Kana.ru>>, <<Kana.ru>>}, {"VerbKuru", "VerbIchidan"}),
     Family(<<Kana.i, Kana.i>>, {<<Kana.i, Kana.i>>, <<Kana.i>>}, {"AdjectiveI", "AdjectiveIx"})}

\* The kanji text of kanji element i and the kana text of reading element j.
KanjiText(i, ending) == <<KanjiChar(i)>> \o ending

ReadingText(j, ending) == <<12449 + j>> \o ending

KanjiLists(f) == {[i \in 1..n |-> KanjiText(i, f.kanji_ending)] : n \in 0..MaxKanji}

\* The ending of a family's reading texts that fits the family's classes.
FittingEnding(f) ==
    CHOOSE e \in f.reading_endings : \A d \in f.reading_endings : Len(d) <= Len(e)

\* A reading element is plain (with either ending), flagged no_kanji, or
\* restricted to the first kanji form.
ReadingChoices(f, kanji) ==
    [ending : f.reading_endings, no_kanji : {FALSE}, restrict : {{}}]
        \cup [ending : {FittingEnding(f)}, no_kanji : {TRUE}, restrict : {{}}]
        \cup (IF kanji = <<>>
              THEN {}
              ELSE [ending : {FittingEnding(f)}, no_kanji : {FALSE}, restrict : {{kanji[1]}}])

ReadingLists(f, kanji) ==
    UNION {{[j \in 1..n |-> [text |-> ReadingText(j, c[j].ending),
                             no_kanji |-> c[j].no_kanji,
                             restrict |-> c[j].restrict]] :
             c \in [1..n -> ReadingChoices(f, kanji)]} :
           n \in 1..MaxReadings}

\* Up to MaxSenses senses of one part of speech each, or one sense without any.
SenseLists(f) ==
    {[i \in 1..Len(SelectSeq(PosOrder, LAMBDA p : p \in S)) |->
         {SelectSeq(PosOrder, LAMBDA p : p \in S)[i]}] :
       S \in {T \in SUBSET f.pos : 1 <= Cardinality(T) /\ Cardinality(T) <= MaxSenses}}
        \cup {<<{}>>}

Entry(kanji_elements, reading_elements, senses) ==
    [kanji_elements |-> kanji_elements, reading_elements |-> reading_elements, senses |-> senses]

ShortEntries ==
    UNION {UNION {{Entry(kanji, reading, senses) :
                      reading \in ReadingLists(f, kanji), senses \in SenseLists(f)} :
                  kanji \in KanjiLists(f)} :
           f \in Families}

\* Two entries long enough for an index to pass u8::MAX: one with LongKanji
\* kanji elements, one with LongKanji reading elements and no kanji.
LongEntries ==
    {Entry([i \in 1..LongKanji |-> KanjiText(i, <<>>)],
           <<[text |-> ReadingText(1, <<>>), no_kanji |-> FALSE, restrict |-> {}]>>,
           <<{"AdjectiveNa"}>>),
     Entry(<<>>,
           [j \in 1..LongKanji |-> [text |-> ReadingText(j, <<>>), no_kanji |-> FALSE, restrict |-> {}]],
           <<{"AdjectiveNa"}>>)}

Entries == ShortEntries \cup LongEntries

\* conjugate is called on an entry.
ConjInit ==
    /\ entry \in Entries
    /\ pc = "start"
    /\ readings = <<>>
    /\ posSeq = <<>>
    /\ pi = 0
    /\ ri = 0
    /\ output = <<>>
    /\ trace = <<>>

\* conjugate up to the first iteration: output = Vec::new(), readings and
\* the set of parts of speech are computed.
Start ==
    /\ pc = "start"
    /\ readings' = reading_permutations(entry)
    /\ posSeq' = parts_of_speech(entry)
    /\ pi' = 1
    /\ ri' = 1
    /\ pc' = IF readings' = <<>> \/ posSeq' = <<>> THEN "done" ELSE "loop"
    /\ UNCHANGED <<entry, output, trace, bKind, bText, bAttr, bEvent, bResult, bPolls>>
    /\ UNCHANGED <<buildVars, ownedVars, wsVars, otherVars>>

\* One iteration of the inner loop; after the last iteration output is returned.
Step ==
    /\ pc = "loop"
    /\ LET c == ConjugateOne(posSeq[pi], readings[ri])
       IN /\ output' = IF c.skip THEN output ELSE Append(output, c.record)
          /\ trace' = IF c.skip THEN trace ELSE Append(trace, [pos |-> posSeq[pi], perm |-> ri])
    /\ ri' = IF ri < Len(readings) THEN ri + 1 ELSE 1
    /\ pi' = IF ri < Len(readings) THEN pi ELSE pi + 1
    /\ pc' = IF ri = Len(readings) /\ pi = Len(posSeq) THEN "done" ELSE "loop"
    /\ UNCHANGED <<entry, readings, posSeq, bKind, bText, bAttr, bEvent, bResult, bPolls>>
    /\ UNCHANGED <<buildVars, ownedVars, wsVars, otherVars>>

ConjSpecInit == ConjInit /\ BuilderIdle /\ BuildIdle /\ OwnedIdle /\ WsIdle /\ OtherIdle

ConjNext == Start \/ Step

ConjSpec == ConjSpecInit /\ [][ConjNext]_vars

(***************************************************************************)
(* Claims about the leaf builders (checked under BuilderSpec)              *)
(***************************************************************************)

\* The poll step just taken carried event ev.
Polled == bPolls' = bPolls + 1

\* C1: every slot accepts exactly one value. A Text polled while the text
\* slot is empty returns Pending and fills the slot with its value; an
\* Attribute with the builder's own name polled while the attribute slot is
\* empty does the same for that slot; a Text or own Attribute polled while
\* its slot is already filled returns an error and leaves the slot as it was.
C1_SlotAcceptsOneValue ==
    [][Polled =>
        /\ (bEvent'.type = "Text" /\ bText = None)
              => (bResult'.tag = "Pending" /\ bText' = bEvent'.value /\ bAttr' = bAttr)
        /\ (bEvent'.type = "Text" /\ bText # None)
              => (bResult'.tag = "Error" /\ bText' = bText /\ bAttr' = bAttr)
        /\ (bEvent'.type = "Attribute" /\ bEvent'.name = OwnAttribute(bKind) /\ bAttr = None)
              => (bResult'.tag = "Pending" /\ bAttr' = bEvent'.value /\ bText' = bText)
        /\ (bEvent'.type = "Attribute" /\ bEvent'.name = OwnAttribute(bKind) /\ bAttr # None)
              => (bResult'.tag = "Error" /\ bAttr' = bAttr /\ bText' = bText)
    ]_vars

\* Witness for C1: a Text was refused because the text slot was already
\* filled, in a builder whose attribute slot had been filled before.
C1_Witness ==
    /\ bEvent.type = "Text"
    /\ bResult.tag = "Error"
    /\ bText # None
    /\ bAttr # None

\* The field names by which an error may identify an empty required slot.
SlotMessages(kind, text, attr) ==
    (IF text = None THEN {"missing text"} ELSE {})
        \cup (IF kind = "Reading" /\ attr = None
              THEN {"missing ty", "missing r_type"} ELSE {})

\* C2: Close returns Ready(record) only if every required slot is filled
\* (text; for Reading also ty, so a Reading record always has its ty); with
\* a required slot empty Close returns an error that names a slot that is
\* missing and produces no record; an ExampleSentence with text only is
\* Ready with lang absent.
C2_CloseRequiresSlots ==
    bEvent.type = "Close" =>
        /\ bResult.tag = "Ready" =>
              /\ bText # None
              /\ bResult.record.text = bText
              /\ bResult.record.attr = bAttr
              /\ bKind = "Reading" => bResult.record.attr # None
        /\ SlotMessages(bKind, bText, bAttr) # {} =>
              /\ bResult.tag = "Error"
              /\ bResult.msg \in SlotMessages(bKind, bText, bAttr)
              /\ bResult.record = NoRecord
        /\ (bKind = "ExampleSentence" /\ bText # None /\ bAttr = None) =>
              (bResult.tag = "Ready" /\ bResult.record.attr = None)

\* An event the builder does not expect in its current state.
Unexpected(kind, text, attr, ev) ==
    \/ ev.type = "Open"
    \/ ev.type = "Attribute" /\ ev.name # OwnAttribute(kind)
    \/ ev.type = "Text" /\ text # None
    \/ ev.type = "Attribute" /\ ev.name = OwnAttribute(kind) /\ attr # None

\* C3: an unexpected event (Open, a foreign attribute, or an event for a
\* slot that is already filled) makes poll return an error carrying that
\* event, never Pending or Ready, and changes no slot.
C3_UnexpectedEventIsError ==
    [][(Polled /\ Unexpected(bKind, bText, bAttr, bEvent')) =>
        /\ bResult'.tag = "Error"
        /\ bResult'.event = bEvent'
        /\ bText' = bText
        /\ bAttr' = bAttr
    ]_vars

\* Witness for C3: a foreign attribute was refused with itself as context.
C3_Witness ==
    /\ bEvent.type = "Attribute"
    /\ bEvent.name # OwnAttribute(bKind)
    /\ bResult.tag = "Error"
    /\ bResult.event = bEvent

(***************************************************************************)
(* Claims about the conjugation engine (checked under ConjSpec)            *)
(***************************************************************************)

\* The permutation and the part of speech that produced record i of output.
PermOf(i) == readings[trace[i].perm]

PosOf(i) == trace[i].pos

\* The texts conjugate works on for a permutation.
KanjiTextOf(perm) == IF perm.kanji.some THEN perm.kanji.text ELSE perm.reading.text

\* C4 as stated: no two records of one call carry the same reading key.
C4_KeysDistinct ==
    \A i, j \in 1..Len(output) : i # j => output[i].reading # output[j].reading

\* C4 as amended: for each part of speech of the entry, conjugate emits at
\* most one record per reading permutation, and that record is tagged with
\* the permutation's key: kanji index (0xFF when there is no kanji form) and
\* reading index, each as a u8. A permutation of an AdjectiveNa entry always
\* gets its record. Records made for different parts of speech of one
\* permutation share their key.
C4_OneRecordPerPosAndPermutation ==
    pc = "done" =>
        /\ Len(trace) = Len(output)
        /\ \A i, j \in 1..Len(output) : i # j => trace[i] # trace[j]
        /\ \A i \in 1..Len(output) :
              /\ output[i].reading.reading = PermOf(i).reading.index % (U8Max + 1)
              /\ output[i].reading.kanji =
                    (IF PermOf(i).kanji.some
                     THEN PermOf(i).kanji.index % (U8Max + 1)
                     ELSE U8Max)
        /\ \A i, j \in 1..Len(output) :
              trace[i].perm = trace[j].perm => output[i].reading = output[j].reading
        /\ "AdjectiveNa" \in parts_of_speech_set(entry) =>
              \A n \in 1..Len(readings) :
                  \E i \in 1..Len(output) : trace[i] = [pos |-> "AdjectiveNa", perm |-> n]

\* Witness for C4: one permutation without kanji form received a record for
\* each of two parts of speech, both tagged with the same key.
C4_Witness ==
    /\ pc = "done"
    /\ \E i, j \in 1..Len(output) :
          /\ trace[i].perm = trace[j].perm
          /\ trace[i].pos # trace[j].pos
          /\ ~PermOf(i).kanji.some
          /\ output[i].reading = output[j].reading

\* C5: an entry none of whose parts of speech is a supported inflectable
\* class yields an empty list.
C5_UnsupportedYieldsNothing ==
    (parts_of_speech_set(entry) \cap SupportedPos = {}) => output = <<>>

\* Witness for C5: the loop ran over every permutation of an entry whose
\* only part of speech is Noun and returned nothing.
C5_Witness ==
    /\ pc = "done"
    /\ posSeq = <<"Noun">>
    /\ Len(readings) >= 2
    /\ pi = 2
    /\ output = <<>>

\* The nine terminal kana of the godan classes.
GodanEndings ==
    {Kana.u, Kana.tsu, Kana.ru, Kana.ku, Kana.gu, Kana.mu, Kana.bu, Kana.nu, Kana.su}

\* A permutation's surface (kanji text and reading text) is well formed for pos.
WellFormed(pos, kanji_text, reading_text) ==
    CASE pos \in IchidanPos ->
            EndsWith(kanji_text, <<Kana.ru>>) /\ EndsWith(reading_text, <<Kana.ru>>)
      [] pos = "VerbGodanKS" ->
            EndsWith(kanji_text, <<Kana.ku>>) /\ EndsWith(reading_text, <<Kana.ku>>)
      [] pos \in GodanPos ->
            LastChar(kanji_text) \in GodanEndings /\ LastChar(reading_text) \in GodanEndings
      [] pos \in SuruPos ->
            /\ Len(kanji_text) >= 2 /\ EndsWith(kanji_text, <<Kana.ru>>)
            /\ EndsWith(reading_text, <<Kana.su, Kana.ru>>)
      [] pos = "VerbKuru" ->
            /\ Len(kanji_text) >= 2 /\ EndsWith(kanji_text, <<Kana.ru>>)
            /\ EndsWith(reading_text, <<Kana.ku, Kana.ru>>)
      [] pos = "AdjectiveI" ->
            EndsWith(kanji_text, <<Kana.i>>) /\ EndsWith(reading_text, <<Kana.i>>)
      [] pos = "AdjectiveIx" ->
            EndsWith(kanji_text, <<Kana.i, Kana.i>>) /\ EndsWith(reading_text, <<Kana.i, Kana.i>>)
      [] pos = "AdjectiveNa" -> TRUE
      [] OTHER -> FALSE

\* C6: a permutation whose surface is ill formed for the class gets no
\* record, every well-formed permutation of the same entry gets one, and
\* the records of a class keep the order of the permutations.
C6_IllFormedSkipped ==
    pc = "done" =>
        /\ \A p \in parts_of_speech_set(entry) \cap SupportedPos :
              \A n \in 1..Len(readings) :
                  (\E i \in 1..Len(trace) : trace[i] = [pos |-> p, perm |-> n])
                      <=> WellFormed(p, KanjiTextOf(readings[n]), readings[n].reading.text)
        /\ \A i, j \in 1..Len(trace) :
              (i < j /\ trace[i].pos = trace[j].pos) => trace[i].perm < trace[j].perm

\* C7: the pair (kanji i, reading j) is listed exactly when reading j
\* applies to kanji i, i.e. its no_kanji is false and its restrict list is
\* empty or contains the kanji text; an entry without kanji elements yields
\* exactly one (None, reading) pair per reading element and nothing else.
C7_PermutationsMatchApplicability ==
    pc = "done" =>
        /\ \A j \in 1..Len(entry.reading_elements) :
              \A i \in 1..Len(entry.kanji_elements) :
                  LET r == entry.reading_elements[j]
                      k == entry.kanji_elements[i]
                  IN (\E n \in 1..Len(readings) :
                          readings[n] = Permutation(SomeKanji(i - 1, k), j - 1, r.text))
                        <=> (~r.no_kanji /\ (r.restrict = {} \/ k \in r.restrict))
        /\ \A n \in 1..Len(readings) :
              readings[n].kanji.some =>
                  /\ readings[n].kanji.index < Len(entry.kanji_elements)
                  /\ readings[n].reading.index < Len(entry.reading_elements)
        /\ Len(entry.kanji_elements) = 0 =>
              readings = [j \in 1..Len(entry.reading_elements) |->
                             Permutation(NoKanji, j - 1, entry.reading_elements[j].text)]

\* Witness for C7: two kanji forms, one reading restricted to the first of
\* them and one unrestricted reading paired with both.
C7_Witness ==
    /\ pc = "done"
    /\ Len(entry.kanji_elements) = 2
    /\ Len(entry.reading_elements) = 2
    /\ entry.reading_elements[1].restrict = {entry.kanji_elements[1]}
    /\ entry.reading_elements[2].restrict = {}
    /\ ~entry.reading_elements[2].no_kanji
    /\ Len(readings) = 3

\* Witness for C7's second half: an entry without kanji elements has been
\* given one (None, reading) pair per reading element.
C7_WitnessNoKanji ==
    /\ pc = "done"
    /\ Len(entry.kanji_elements) = 0
    /\ Len(readings) = 2

\* C8: reading_permutations lists its pairs by increasing reading position
\* and, within one reading, by increasing kanji position; the records of one
\* part of speech follow the order of the permutations.
C8_InputOrder ==
    pc = "done" =>
        /\ \A m, n \in 1..Len(readings) :
              m < n =>
                  \/ readings[m].reading.index < readings[n].reading.index
                  \/ /\ readings[m].reading.index = readings[n].reading.index
                     /\ readings[m].kanji.some
                     /\ readings[n].kanji.some
                     /\ readings[m].kanji.index < readings[n].kanji.index
        /\ \A i, j \in 1..Len(trace) :
              (i < j /\ trace[i].pos = trace[j].pos) => trace[i].perm < trace[j].perm

\* Witness for C8: four permutations (two readings, two kanji forms each)
\* all produced a record for one part of speech.
C8_Witness ==
    /\ pc = "done"
    /\ Len(readings) = 4
    /\ Len(posSeq) = 1
    /\ Len(output) = 4

\* C9: a record's key has kanji = 0xFF exactly when its permutation has no
\* kanji form, and otherwise the position of the kanji element; reading is
\* the position of the reading element; different permutations of one entry
\* never receive the same key.
C9_KeyIdentifiesPermutation ==
    /\ \A i \in 1..Len(output) :
          /\ (output[i].reading.kanji = U8Max) <=> ~PermOf(i).kanji.some
          /\ PermOf(i).kanji.some => output[i].reading.kanji = PermOf(i).kanji.index
          /\ output[i].reading.reading = PermOf(i).reading.index
    /\ pc = "done" =>
          \A i, j \in 1..Len(output) :
              trace[i].perm # trace[j].perm => output[i].reading # output[j].reading

\* The records made for the ichidan classes.
IchidanRecords == {i \in 1..Len(output) : PosOf(i) \in IchidanPos}

\* C10 as stated: for an ichidan verb k+ru the table holds k+te+ru under
\* the feature set {TeIru, Short}.
C10_TeIruShortKey ==
    \A i \in IchidanRecords :
        /\ {"TeIru", "Short"} \in DOMAIN output[i].inflections
        /\ KanjiSurface(output[i].inflections[{"TeIru", "Short"}])
              = DropLast(output[i].dictionary.kanji, 1) \o <<Kana.te, Kana.ru>>

\* C10 as amended: for an ichidan verb k+ru the table holds k+te+ru (in
\* its kanji and in its reading spelling) under the feature set
\* {Te, TeIru, Short}.
C10_TeIruShortForm ==
    \A i \in IchidanRecords :
        /\ {"Te", "TeIru", "Short"} \in DOMAIN output[i].inflections
        /\ KanjiSurface(output[i].inflections[{"Te", "TeIru", "Short"}])
              = DropLast(output[i].dictionary.kanji, 1) \o <<Kana.te, Kana.ru>>
        /\ ReadingSurface(output[i].inflections[{"Te", "TeIru", "Short"}])
              = DropLast(output[i].dictionary.reading, 1) \o <<Kana.te, Kana.ru>>

\* Witness for C10: an ichidan verb written with a kanji form was conjugated.
C10_Witness ==
    \E i \in IchidanRecords :
        /\ PermOf(i).kanji.some
        /\ EndsWith(output[i].dictionary.kanji, <<Kana.ru>>)
        /\ {"Te", "TeIru", "Short"} \in DOMAIN output[i].inflections

\* C11: for an ichidan verb k+ru the {Chau} form is k+cha+u, in its kanji
\* and in its reading spelling: nothing stands between the surface without
\* its final ru and cha.
C11_IchidanChauOnBareStem ==
    \A i \in IchidanRecords :
        /\ {"Chau"} \in DOMAIN output[i].inflections
        /\ KanjiSurface(output[i].inflections[{"Chau"}])
              = DropLast(output[i].dictionary.kanji, 1) \o <<Kana.chi, Kana.xya, Kana.u>>
        /\ ReadingSurface(output[i].inflections[{"Chau"}])
              = DropLast(output[i].dictionary.reading, 1) \o <<Kana.chi, Kana.xya, Kana.u>>

\* The classes whose arm leaves a stem behind, and the godan endings whose
\* te-form is voiced.
StemClasses == IchidanPos \cup GodanPos \cup {"VerbGodanKS"}

DeEndings == {Kana.nu, Kana.bu, Kana.mu, Kana.gu}

DeFlag(i) == PosOf(i) \in GodanPos /\ LastChar(output[i].dictionary.kanji) \in DeEndings

\* The stem the arm of record i computed.
StemOf(i) ==
    MatchPos(PosOf(i), output[i].dictionary.kanji, output[i].dictionary.reading).stem

\* The godan-u endings after the contraction syllable c (cha or ja).
ChauEndings(c) ==
    [f \in {{}, {"Polite"}, {"Negative"}, {"Past"}} |->
        CASE f = {} -> <<c, Kana.xya, Kana.u>>
          [] f = {"Polite"} -> <<c, Kana.xya, Kana.i, Kana.ma, Kana.su>>
          [] f = {"Negative"} -> <<c, Kana.xya, Kana.wa, Kana.na, Kana.i>>
          [] f = {"Past"} -> <<c, Kana.xya, Kana.xtsu, Kana.ta>>]

\* C12: a record of an ichidan or godan class has a non-empty stem and its
\* Chau forms are stem + ja (voiced te-form: godan nu, bu, mu, gu) or
\* stem + cha (otherwise) followed by the godan-u endings; a record of any
\* other class (suru, kuru, adjectives) has no key containing Chau.
C12_ChauFollowsDeFlag ==
    \A i \in 1..Len(output) :
        LET table == output[i].inflections
        IN IF PosOf(i) \in StemClasses
           THEN /\ ~is_empty(StemOf(i))
                /\ \A f \in DOMAIN ChauEndings(Kana.chi) :
                      /\ ({"Chau"} \cup f) \in DOMAIN table
                      /\ table[{"Chau"} \cup f]
                            = concat(StemOf(i),
                                     ChauEndings(IF DeFlag(i) THEN Kana.ji ELSE Kana.chi)[f])
           ELSE \A key \in DOMAIN table : "Chau" \notin key

\* Witness for C12: a godan verb with a voiced te-form and a record of a
\* class without stem were conjugated from one entry.
C12_Witness ==
    /\ \E i \in 1..Len(output) :
          /\ DeFlag(i)
          /\ PermOf(i).kanji.some
          /\ {"Chau"} \in DOMAIN output[i].inflections
    /\ \E i \in 1..Len(output) :
          /\ PosOf(i) \notin StemClasses
          /\ output[i].inflections # EmptyTable

\* The records made for VerbGodanKS.
IkuRecords == {i \in 1..Len(output) : PosOf(i) = "VerbGodanKS"}

\* C13: a VerbGodanKS permutation gets a record exactly when its kanji text
\* and its reading text both end in ku; with k and r the texts before ku,
\* the record's {Te} form is k+tte (never k+ite), its past is k+tta, and
\* its Chau form is built on the sokuon stem of the Iku row with the
\* unvoiced contraction: k+tcha+u.
C13_IkuRow ==
    /\ \A i \in IkuRecords :
          LET table == output[i].inflections
              k == DropLast(output[i].dictionary.kanji, 1)
              r == DropLast(output[i].dictionary.reading, 1)
          IN /\ EndsWith(output[i].dictionary.kanji, <<Kana.ku>>)
             /\ EndsWith(output[i].dictionary.reading, <<Kana.ku>>)
             /\ {{"Te"}, {"Past"}, {"Chau"}} \subseteq DOMAIN table
             /\ table[{"Te"}] = Fragments(k, r, <<Kana.xtsu, Kana.te>>)
             /\ KanjiSurface(table[{"Te"}]) # k \o <<Kana.i, Kana.te>>
             /\ table[{"Past"}] = Fragments(k, r, <<Kana.xtsu, Kana.ta>>)
             /\ table[{"Chau"}] = Fragments(k, r, <<Kana.xtsu, Kana.chi, Kana.xya, Kana.u>>)
             /\ output[i].kind = "Verb"
    /\ pc = "done" /\ "VerbGodanKS" \in parts_of_speech_set(entry) =>
          \A n \in 1..Len(readings) :
              (\E i \in IkuRecords : trace[i].perm = n)
                  <=> /\ EndsWith(KanjiTextOf(readings[n]), <<Kana.ku>>)
                      /\ EndsWith(readings[n].reading.text, <<Kana.ku>>)

\* Witness for C13: one VerbGodanKS entry had a permutation ending in ku
\* conjugated and another permutation skipped.
C13_Witness ==
    /\ pc = "done"
    /\ \E i \in IkuRecords : PermOf(i).kanji.some
    /\ "VerbGodanKS" \in parts_of_speech_set(entry)
    /\ \E n \in 1..Len(readings) : \A i \in IkuRecords : trace[i].perm # n

\* Witness for the skipped kanji text of C13: a VerbGodanKS entry whose
\* kanji text ends in another kana produced no record for that class.
C13_WitnessKanjiSkipped ==
    /\ pc = "done"
    /\ "VerbGodanKS" \in parts_of_speech_set(entry)
    /\ \E n \in 1..Len(readings) :
          /\ readings[n].kanji.some
          /\ ~EndsWith(KanjiTextOf(readings[n]), <<Kana.ku>>)
          /\ EndsWith(readings[n].reading.text, <<Kana.gu>>)
    /\ IkuRecords = {}

\* The records made for AdjectiveIx.
IxRecords == {i \in 1..Len(output) : PosOf(i) = "AdjectiveIx"}

\* C14: an AdjectiveIx permutation gets a record exactly when its kanji
\* text and its reading text both end in ii; with p the text before ii (in
\* either spelling) the record's {Past} form is p+yokatta (never
\* p+ikatta), its {Negative} form is p+yokunai, and its kind is Adjective.
C14_YoiStem ==
    /\ \A i \in IxRecords :
          LET table == output[i].inflections
              k == DropLast(output[i].dictionary.kanji, 2)
              r == DropLast(output[i].dictionary.reading, 2)
          IN /\ EndsWith(output[i].dictionary.kanji, <<Kana.i, Kana.i>>)
             /\ EndsWith(output[i].dictionary.reading, <<Kana.i, Kana.i>>)
             /\ {{"Past"}, {"Negative"}} \subseteq DOMAIN table
             /\ KanjiSurface(table[{"Past"}]) = k \o <<Kana.yo, Kana.ka, Kana.xtsu, Kana.ta>>
             /\ ReadingSurface(table[{"Past"}]) = r \o <<Kana.yo, Kana.ka, Kana.xtsu, Kana.ta>>
             /\ KanjiSurface(table[{"Past"}]) # k \o <<Kana.i, Kana.ka, Kana.xtsu, Kana.ta>>
             /\ KanjiSurface(table[{"Negative"}]) = k \o <<Kana.yo, Kana.ku, Kana.na, Kana.i>>
             /\ ReadingSurface(table[{"Negative"}]) = r \o <<Kana.yo, Kana.ku, Kana.na, Kana.i>>
             /\ output[i].kind = "Adjective"
    /\ pc = "done" /\ "AdjectiveIx" \in parts_of_speech_set(entry) =>
          \A n \in 1..Len(readings) :
              (\E i \in IxRecords : trace[i].perm = n)
                  <=> /\ EndsWith(KanjiTextOf(readings[n]), <<Kana.i, Kana.i>>)
                      /\ EndsWith(readings[n].reading.text, <<Kana.i, Kana.i>>)

\* Witness for C14: of one AdjectiveIx entry a permutation ending in ii was
\* conjugated and a permutation whose reading ends in a single i was not.
C14_Witness ==
    /\ pc = "done"
    /\ \E i \in IxRecords : PermOf(i).kanji.some
    /\ \E n \in 1..Len(readings) :
          /\ ~EndsWith(readings[n].reading.text, <<Kana.i, Kana.i>>)
          /\ \A i \in IxRecords : trace[i].perm # n

\* C15: in an AdjectiveIx record the past-negative forms are p+yonakatta
\* and, polite, p+yonakattadesu, in both spellings (not yokunakatta).
C15_PastNegativeVerbatim ==
    \A i \in IxRecords :
        LET table == output[i].inflections
            k == DropLast(output[i].dictionary.kanji, 2)
            r == DropLast(output[i].dictionary.reading, 2)
            plain == <<Kana.yo, Kana.na, Kana.ka, Kana.xtsu, Kana.ta>>
        IN /\ {{"Past", "Negative"}, {"Past", "Negative", "Polite"}} \subseteq DOMAIN table
           /\ KanjiSurface(table[{"Past", "Negative"}]) = k \o plain
           /\ ReadingSurface(table[{"Past", "Negative"}]) = r \o plain
           /\ KanjiSurface(table[{"Past", "Negative", "Polite"}])
                 = k \o plain \o <<Kana.de, Kana.su>>
           /\ ReadingSurface(table[{"Past", "Negative", "Polite"}])
                 = r \o plain \o <<Kana.de, Kana.su>>
           /\ KanjiSurface(table[{"Past", "Negative"}])
                 # k \o <<Kana.yo, Kana.ku, Kana.na, Kana.ka, Kana.xtsu, Kana.ta>>

\* Witness for C15: an AdjectiveIx record holding both past-negative forms.
C15_Witness ==
    \E i \in IxRecords :
        /\ {"Past", "Negative", "Polite"} \in DOMAIN output[i].inflections
        /\ Len(output[i].dictionary.kanji) > 2

\* The six auxiliaries grafted onto a te-form.
TeAuxiliaries == {"TeIru", "TeAru", "TeIku", "TeShimau", "TeOku", "TeKuru"}

\* The endings an auxiliary may show after the te-form, per additional
\* feature set: iru as an ichidan verb, aru, iku, shimau and oku as godan
\* verbs of the ru, iku, u and ku rows, kuru irregular. Under the bare key
\* of TeKuru the plain form kuru and the te-form kite of the auxiliary
\* compete for one key ({TeKuru, Te} with Te added once more).
AuxEndings ==
    [x \in TeAuxiliaries |->
        [f \in {{}, {"Polite"}, {"Negative"}, {"Past"}} |->
            LET head == CASE x = "TeIru" -> <<Kana.i>>
                          [] x = "TeAru" -> <<Kana.a>>
                          [] x = "TeIku" -> <<Kana.i>>
                          [] x = "TeShimau" -> <<Kana.shi, Kana.ma>>
                          [] x = "TeOku" -> <<Kana.o>>
                          [] x = "TeKuru" -> <<>>
                tail == CASE x = "TeIru" ->
                               [g \in {{}, {"Polite"}, {"Negative"}, {"Past"}} |->
                                   CASE g = {} -> {<<Kana.ru>>}
                                     [] g = {"Polite"} -> {<<Kana.ma, Kana.su>>}
                                     [] g = {"Negative"} -> {<<Kana.na, Kana.i>>}
                                     [] g = {"Past"} -> {<<Kana.ta>>}]
                          [] x = "TeAru" ->
                               [g \in {{}, {"Polite"}, {"Negative"}, {"Past"}} |->
                                   CASE g = {} -> {<<Kana.ru>>}
                                     [] g = {"Polite"} -> {<<Kana.ri, Kana.ma, Kana.su>>}
                                     [] g = {"Negative"} -> {<<Kana.ra, Kana.na, Kana.i>>}
                                     [] g = {"Past"} -> {<<Kana.xtsu, Kana.ta>>}]
                          [] x = "TeIku" ->
                               [g \in {{}, {"Polite"}, {"Negative"}, {"Past"}} |->
                                   CASE g = {} -> {<<Kana.ku>>}
                                     [] g = {"Polite"} -> {<<Kana.ki, Kana.ma, Kana.su>>}
                                     [] g = {"Negative"} -> {<<Kana.ka, Kana.na, Kana.i>>}
                                     [] g = {"Past"} -> {<<Kana.xtsu, Kana.ta>>}]
                          [] x = "TeShimau" ->
                               [g \in {{}, {"Polite"}, {"Negative"}, {"Past"}} |->
                                   CASE g = {} -> {<<Kana.u>>}
                                     [] g = {"Polite"} -> {<<Kana.i, Kana.ma, Kana.su>>}
                                     [] g = {"Negative"} -> {<<Kana.wa, Kana.na, Kana.i>>}
                                     [] g = {"Past"} -> {<<Kana.xtsu, Kana.ta>>}]
                          [] x = "TeOku" ->
                               [g \in {{}, {"Polite"}, {"Negative"}, {"Past"}} |->
                                   CASE g = {} -> {<<Kana.ku>>}
                                     [] g = {"Polite"} -> {<<Kana.ki, Kana.ma, Kana.su>>}
                                     [] g = {"Negative"} -> {<<Kana.ka, Kana.na, Kana.i>>}
                                     [] g = {"Past"} -> {<<Kana.i, Kana.ta>>}]
                          [] x = "TeKuru" ->
                               [g \in {{}, {"Polite"}, {"Negative"}, {"Past"}} |->
                                   CASE g = {} -> {<<Kana.ku, Kana.ru>>, <<Kana.ki, Kana.te>>}
                                     [] g = {"Polite"} -> {<<Kana.ki, Kana.ma, Kana.su>>}
                                     [] g = {"Negative"} -> {<<Kana.ko, Kana.na, Kana.i>>}
                                     [] g = {"Past"} -> {<<Kana.ki, Kana.ta>>}]
            IN {head \o t : t \in tail[f]}]]

\* C16: a table that holds a {Te} form p holds, for each of the six
\* auxiliaries, its plain, polite, negative and past form as p followed by
\* the auxiliary's conjugated ending (and the two short forms p+ru and
\* p+ku), and nothing else under a key naming an auxiliary; a table without
\* {Te} form has no key naming an auxiliary.
C16_TeChains ==
    \A i \in 1..Len(output) :
        LET table == output[i].inflections
        IN IF {"Te"} \in DOMAIN table
           THEN LET p == table[{"Te"}]
                IN /\ \A x \in TeAuxiliaries : \A f \in DOMAIN AuxEndings[x] :
                         /\ ({x, "Te"} \cup f) \in DOMAIN table
                         /\ \E e \in AuxEndings[x][f] : table[{x, "Te"} \cup f] = concat(p, e)
                   /\ {"Te", "TeIru", "Short"} \in DOMAIN table
                   /\ table[{"Te", "TeIru", "Short"}] = concat(p, <<Kana.ru>>)
                   /\ {"Te", "TeOku", "Short"} \in DOMAIN table
                   /\ table[{"Te", "TeOku", "Short"}] = concat(p, <<Kana.ku>>)
                   /\ \A key \in DOMAIN table :
                         key \cap TeAuxiliaries # {} =>
                            \/ \E x \in TeAuxiliaries : \E f \in DOMAIN AuxEndings[x] :
                                  key = {x, "Te"} \cup f
                            \/ key \in {{"Te", "TeIru", "Short"}, {"Te", "TeOku", "Short"}}
           ELSE \A key \in DOMAIN table : key \cap TeAuxiliaries = {}

\* Witness for C16: one entry produced a verb record with a te-form written
\* with a kanji form and an adjective record without te-form.
C16_Witness ==
    /\ \E i \in 1..Len(output) :
          /\ PermOf(i).kanji.some
          /\ {"Te"} \in DOMAIN output[i].inflections
          /\ {"Te", "TeKuru", "Past"} \in DOMAIN output[i].inflections
    /\ \E i \in 1..Len(output) :
          /\ output[i].kind = "Adjective"
          /\ {"Te"} \notin DOMAIN output[i].inflections
          /\ output[i].inflections # EmptyTable

\* A second witness for C16: a kuru record and an ichidan record of one
\* entry both carry the chains.
C16_WitnessIrregular ==
    \E i, j \in 1..Len(output) :
        /\ PosOf(i) = "VerbKuru" /\ {"Te", "TeIru"} \in DOMAIN output[i].inflections
        /\ PosOf(j) \in IchidanPos /\ {"Te", "TeIru"} \in DOMAIN output[j].inflections

(***************************************************************************)
(* The build command (crates/jpv/src/command/build.rs)                     *)
(***************************************************************************)

\* The number of sources a configuration selects at most.
MaxSources == 2

\* What lib::data::open and database::Index::open find at an index_path:
\* no file, an index that opens, a file that is no index, or a file whose
\* opening fails with an I/O error other than NotFound.
IndexStates == {"absent", "index", "garbage", "denied"}

\* The step of a source's future that fails, if any: fs::read or the
\* download, the gzip decoding, database::build, or fs::write.
Failures == {"none", "read", "decode", "build", "write"}

\* How the session bus treats dbus::shutdown: the call goes through, no
\* session connection can be made, or the call is sent and answered by an error.
DbusStates == {"up", "no_session", "no_reply"}

\* What an index_path holds after fs::write of a freshly built index.
Built == "built"

\* What run returns: nothing yet, Ok(()), or the error of a stage of source i.
RunError(stage, i) == [error |-> stage, source |-> i]

NotReturned == RunError("-", 0)

RunOk == RunError("none", 0)

\* Whether the first loop of run pushes a future for a source.
NeedsBuild_ForceIgnored(state, f) == state \in {"absent", "garbage"}

NeedsBuild(state, f) ==
    CASE state = "index" -> f
      [] state = "garbage" -> TRUE
      [] state = "absent" -> TRUE
      [] OTHER -> FALSE

BuildInit ==
    /\ to_download \in UNION {[1..n -> [index : IndexStates, fails : Failures]] :
                               n \in 0..MaxSources}
    /\ force \in BOOLEAN
    /\ dbus \in DbusStates
    /\ runPc = "run"
    /\ di = 1
    /\ futures = <<>>
    /\ fi = 1
    /\ indexFile = [i \in 1..Len(to_download) |-> to_download[i].index]
    /\ loaded = {}
    /\ shutdownSent = FALSE
    /\ runResult = NotReturned

\* One iteration of `for download in &to_download`: the index file is
\* opened and the source is skipped, scheduled, or run bails.
Scan ==
    /\ runPc = "run"
    /\ di <= Len(to_download)
    /\ IF indexFile[di] = "denied"
       THEN /\ runPc' = "returned"
            /\ runResult' = RunError("open", di)
            /\ UNCHANGED <<di, futures>>
       ELSE /\ futures' = IF NeedsBuild(indexFile[di], force)
                          THEN Append(futures, di)
                          ELSE futures
            /\ di' = di + 1
            /\ UNCHANGED <<runPc, runResult>>
    /\ UNCHANGED <<to_download, force, dbus, fi, indexFile, loaded, shutdownSent>>
    /\ UNCHANGED <<builderVars, conjVars, ownedVars, wsVars, otherVars>>

AwaitFuture_KeepGoing ==
    /\ runPc = "run"
    /\ di > Len(to_download)
    /\ fi <= Len(futures)
    /\ LET i == futures[fi]
           fails == to_download[i].fails
       IN /\ loaded' = loaded \cup {i}
          /\ indexFile' = IF fails = "none"
                          THEN [indexFile EXCEPT ![i] = Built]
                          ELSE indexFile
          /\ fi' = fi + 1
          /\ UNCHANGED <<runPc, runResult>>
    /\ UNCHANGED <<to_download, force, dbus, di, futures, shutdownSent>>
    /\ UNCHANGED <<builderVars, conjVars, ownedVars, wsVars, otherVars>>

\* One iteration of `for future in futures { future.await?; }`: the source
\* is read (or downloaded) and decoded, the index is built and written; the
\* first failing step ends run. A failed fs::write leaves the old file or a
\* truncated one.
AwaitFuture ==
    /\ runPc = "run"
    /\ di > Len(to_download)
    /\ fi <= Len(futures)
    /\ LET i == futures[fi]
           fails == to_download[i].fails
       IN /\ loaded' = loaded \cup {i}
          /\ IF fails = "none"
             THEN /\ indexFile' = [indexFile EXCEPT ![i] = Built]
                  /\ fi' = fi + 1
                  /\ UNCHANGED <<runPc, runResult>>
             ELSE /\ runPc' = "returned"
                  /\ runResult' = RunError(fails, i)
                  /\ \/ indexFile' = indexFile
                     \/ fails = "write" /\ indexFile' = [indexFile EXCEPT ![i] = "garbage"]
                  /\ UNCHANGED fi
    /\ UNCHANGED <<to_download, force, dbus, di, futures, shutdownSent>>
    /\ UNCHANGED <<builderVars, conjVars, ownedVars, wsVars, otherVars>>

\* crate::dbus::shutdown().await?; Ok(())
Shutdown ==
    /\ runPc = "run"
    /\ di > Len(to_download)
    /\ fi > Len(futures)
    /\ shutdownSent' = (dbus # "no_session")
    /\ runResult' = IF dbus = "up" THEN RunOk ELSE RunError("dbus", 0)
    /\ runPc' = "returned"
    /\ UNCHANGED <<to_download, force, dbus, di, futures, fi, indexFile, loaded>>
    /\ UNCHANGED <<builderVars, conjVars, ownedVars, wsVars, otherVars>>

BuildSpecInit == BuildInit /\ BuilderIdle /\ ConjIdle /\ OwnedIdle /\ WsIdle /\ OtherIdle

BuildNext == Scan \/ AwaitFuture \/ Shutdown

BuildSpec == BuildSpecInit /\ [][BuildNext]_vars

(***************************************************************************)
(* Claims about the build command (checked under BuildSpec)                *)
(***************************************************************************)

Sources == 1..Len(to_download)

\* The index file of source i is as run found it.
Untouched(i) == indexFile[i] = to_download[i].index

\* C17: once the reading, decoding or building of a source has failed, run
\* has returned that very error, the source's index file is as it was, no
\* later source has been read or written, and no shutdown request was sent.
C17_FailedSourceFailsBuild ==
    \A i \in loaded :
        to_download[i].fails \in {"read", "decode", "build"} =>
            /\ runPc = "returned"
            /\ runResult = RunError(to_download[i].fails, i)
            /\ Untouched(i)
            /\ \A j \in Sources : j > i => j \notin loaded /\ Untouched(j)
            /\ ~shutdownSent

\* Witness for C17: the first of two sources to rebuild failed in
\* database::build, and run returned with the second one never read.
C17_Witness ==
    /\ runPc = "returned"
    /\ Len(to_download) = 2
    /\ futures = <<1, 2>>
    /\ to_download[1].fails = "build"
    /\ runResult = RunError("build", 1)
    /\ loaded = {1}

\* The condition under which the claim has a source rebuilt.
Stale(i) == to_download[i].index \in {"absent", "garbage"} \/ force

C18_WitnessForce ==
    /\ runPc = "returned"
    /\ force
    /\ \E i \in Sources : to_download[i].index = "index" /\ indexFile[i] = Built

\* Witness for the failing open of C18: the second index file could not be
\* opened although the first source was due for a rebuild.
C18_WitnessDenied ==
    /\ runPc = "returned"
    /\ Len(to_download) = 2
    /\ to_download[1].index = "absent"
    /\ to_download[2].index = "denied"
    /\ runResult = RunError("open", 2)

(***************************************************************************)
(* The owned macro on an enum (crates/owned-macros/src/implement.rs)       *)
(***************************************************************************)

\* The number of fields of a variant at most.
MaxFields == 2

\* The variant names of the enum of tests/build_enum.rs, by position.
VariantNames == <<"Variant", "Unnamed", "Empty">>

\* Names of the fields of a named-field variant and the variables
\* f0, f1, ... that Binding::as_variable makes for positions.
FieldNames == <<"a", "b", "c">>

IndexVariables == <<"f0", "f1", "f2">>

\* Binding::Field(ident) and Binding::Index(index), index counted from 0.
FieldBinding(ident) == [kind |-> "Field", ident |-> ident, index |-> 0]

IndexBinding(index) == [kind |-> "Index", ident |-> "-", index |-> index]

as_variable(binding) ==
    IF binding.kind = "Field" THEN binding.ident ELSE IndexVariables[binding.index + 1]

\* for (n, f) in fields.enumerate(): Binding::Field(ident) or Binding::Index(n)
BindingOf(field, n) ==
    IF field.ident # "-" THEN FieldBinding(field.ident) ELSE IndexBinding(n)

\* What attr::field returns for a field: #[owned(ty = String)] on a &str,
\* no attribute on a u32, #[owned(copy)] on a u32.
FieldAttrs ==
    {[borrowed |-> "&str", ty |-> "String", copy |-> FALSE, is_set |-> TRUE],
     [borrowed |-> "u32", ty |-> "Original", copy |-> FALSE, is_set |-> FALSE],
     [borrowed |-> "u32", ty |-> "Original", copy |-> TRUE, is_set |-> TRUE]}

\* One field of the item: its name ("-" in a tuple variant), type and attribute.
DeclField(ident, attr) == [ident |-> ident, ty |-> attr.borrowed, attr |-> attr]

\* The variants explored: named-field or tuple variants of up to MaxFields
\* fields that share one attribute, and the unit variant.
VariantShapes ==
    {[style |-> "named", fields |-> [n \in 1..k |-> DeclField(FieldNames[n], attr)]] :
        k \in 1..MaxFields, attr \in FieldAttrs}
    \cup {[style |-> "unnamed", fields |-> [n \in 1..k |-> DeclField("-", attr)]] :
            k \in 1..MaxFields, attr \in FieldAttrs}
    \cup {[style |-> "unit", fields |-> <<>>]}

Declarations ==
    UNION {{[v \in 1..n |-> [ident |-> VariantNames[v],
                             style |-> shapes[v].style,
                             fields |-> shapes[v].fields]] :
              shapes \in [1..n -> VariantShapes]} :
           n \in 1..Len(VariantNames)}

\* BoundAccess::to_tokens: `&self.binding`, `self.binding` for a copy
\* field, or the variable of a binding of the surrounding match arm.
BoundAccess(copy, access, binding) ==
    IF access = "SelfAccess"
    THEN [self |-> TRUE, and_token |-> ~copy, name |-> as_variable(binding)]
    ELSE [self |-> FALSE, and_token |-> FALSE, name |-> as_variable(binding)]

\* Call::as_tokens: `path(access)` or just `access`.
as_tokens(call, bound) == [call |-> call, access |-> bound]

process_fields_SwapCalls(access, fields) ==
    [n \in 1..Len(fields) |->
        LET field == fields[n]
            attr == field.attr
            to_owned == IF attr.copy THEN "Copy" ELSE IF attr.is_set THEN "borrow" ELSE "clone"
            borrow == IF attr.copy THEN "Copy" ELSE IF attr.is_set THEN "to_owned" ELSE "clone"
            binding == BindingOf(field, n - 1)
            bound == BoundAccess(attr.copy, access, binding)
        IN [field |-> [field EXCEPT !.ty = IF attr.ty = "Original" THEN @ ELSE attr.ty],
            to_owned_entry |-> [binding |-> binding, value |-> as_tokens(to_owned, bound)],
            borrow_entry |-> [binding |-> binding, value |-> as_tokens(borrow, bound)]]]

\* process_fields: per field, the field of the owning shape and the
\* entries `binding: call(access)` of the two conversions.
process_fields(access, fields) ==
    [n \in 1..Len(fields) |->
        LET field == fields[n]
            attr == field.attr
            to_owned == IF attr.copy THEN "Copy" ELSE IF attr.is_set THEN "to_owned" ELSE "clone"
            borrow == IF attr.copy THEN "Copy" ELSE IF attr.is_set THEN "borrow" ELSE "clone"
            binding == BindingOf(field, n - 1)
            bound == BoundAccess(attr.copy, access, binding)
        IN [field |-> [field EXCEPT !.ty = IF attr.ty = "Original" THEN @ ELSE attr.ty],
            to_owned_entry |-> [binding |-> binding, value |-> as_tokens(to_owned, bound)],
            borrow_entry |-> [binding |-> binding, value |-> as_tokens(borrow, bound)]]]

\* A value of a field: its type, the number of references around it, its datum.
Value(ty, refs, data) == [ty |-> ty, refs |-> refs, data |-> data]

\* What the called path returns: Clone::clone(&T) is a T; the to_owned
\* path turns a reference to a &str into a String and the borrow path a
\* reference to a String into a &str; a copy entry is the place itself.
Call(call, arg) ==
    CASE call = "clone" -> Value(arg.ty, arg.refs - 1, arg.data)
      [] call = "to_owned" ->
            Value(IF arg.ty = "&str" THEN "String" ELSE arg.ty, arg.refs - 1, arg.data)
      [] call = "borrow" ->
            Value(IF arg.ty = "String" THEN "&str" ELSE arg.ty, arg.refs - 1, arg.data)
      [] OTHER -> arg

\* A value of an enum: its variant and the value of each member.
EnumValue(variant, fields) == [variant |-> variant, fields |-> fields]

\* The generated `match self { ... }`: the arm of the value's variant binds
\* each member by reference (self is a reference) and builds the variant of
\* the same name of the other shape from the arm's entries.
Match(arms, value) ==
    LET arm == arms[CHOOSE k \in 1..Len(arms) : arms[k].variant = value.variant]
        members == {arm.patterns[n] : n \in 1..Len(arm.patterns)}
        Bound(name) ==
            LET member == CHOOSE m \in members : as_variable(m) = name
                v == value.fields[member]
            IN Value(v.ty, v.refs + 1, v.data)
        Place(access) ==
            IF access.and_token
            THEN Value(Bound(access.name).ty, Bound(access.name).refs + 1, Bound(access.name).data)
            ELSE Bound(access.name)
    IN EnumValue(arm.variant,
                 [b \in {arm.entries[n].binding : n \in 1..Len(arm.entries)} |->
                     LET e == arm.entries[CHOOSE n \in 1..Len(arm.entries) :
                                              arm.entries[n].binding = b]
                     IN Call(e.value.call, Place(e.value.access))])

\* The value of variant v of the item whose member at position n holds datum n.
SampleOf(variant) ==
    EnumValue(variant.ident,
              [b \in {BindingOf(variant.fields[n], n - 1) : n \in 1..Len(variant.fields)} |->
                  LET n == CHOOSE k \in 1..Len(variant.fields) :
                               BindingOf(variant.fields[k], k - 1) = b
                  IN Value(variant.fields[n].ty, 0, n)])

OwnedInit ==
    /\ decl \in Declarations
    /\ genPc = "variants"
    /\ vi = 1
    /\ ownedDecl = <<>>
    /\ to_owned_variants = <<>>
    /\ borrow_variants = <<>>
    /\ sample = <<>>
    /\ ownedSample = <<>>
    /\ backSample = <<>>

\* One iteration of the loop over the zipped variants: process_fields, then
\* one match arm is pushed for each conversion.
ProcessVariant ==
    /\ genPc = "variants"
    /\ LET variant == decl[vi]
           processed == process_fields("BindingAccess", variant.fields)
           patterns == [n \in 1..Len(variant.fields) |-> BindingOf(variant.fields[n], n - 1)]
       IN /\ ownedDecl' = Append(ownedDecl,
                                 [variant EXCEPT !.fields =
                                     [n \in 1..Len(processed) |-> processed[n].field]])
          /\ to_owned_variants' =
                Append(to_owned_variants,
                       [variant |-> variant.ident, patterns |-> patterns,
                        entries |-> [n \in 1..Len(processed) |-> processed[n].to_owned_entry]])
          /\ borrow_variants' =
                Append(borrow_variants,
                       [variant |-> variant.ident, patterns |-> patterns,
                        entries |-> [n \in 1..Len(processed) |-> processed[n].borrow_entry]])
    /\ vi' = vi + 1
    /\ genPc' = IF vi = Len(decl) THEN "emit" ELSE "variants"
    /\ UNCHANGED <<decl, sample, ownedSample, backSample>>
    /\ UNCHANGED <<builderVars, conjVars, buildVars, wsVars, otherVars>>

\* The rest of implement: the arms become the bodies of to_owned and borrow
\* and the item, the owning shape and the two impls are emitted.
Emit ==
    /\ genPc = "emit"
    /\ genPc' = "done"
    /\ UNCHANGED <<decl, vi, ownedDecl, to_owned_variants, borrow_variants,
                   sample, ownedSample, backSample>>
    /\ UNCHANGED <<builderVars, conjVars, buildVars, wsVars, otherVars>>

\* The generated conversions applied to a value of the item: to_owned, then
\* borrow on its result.
Convert ==
    /\ genPc = "done"
    /\ \E v \in 1..Len(decl) :
          LET x == SampleOf(decl[v])
              y == Match(to_owned_variants, x)
          IN /\ sample' = x
             /\ ownedSample' = y
             /\ backSample' = Match(borrow_variants, y)
    /\ genPc' = "converted"
    /\ UNCHANGED <<decl, vi, ownedDecl, to_owned_variants, borrow_variants>>
    /\ UNCHANGED <<builderVars, conjVars, buildVars, wsVars, otherVars>>

OwnedSpecInit == OwnedInit /\ BuilderIdle /\ ConjIdle /\ BuildIdle /\ WsIdle /\ OtherIdle

OwnedNext == ProcessVariant \/ Emit \/ Convert

OwnedSpec == OwnedSpecInit /\ [][OwnedNext]_vars

(***************************************************************************)
(* Claims about the owned macro (checked under OwnedSpec)                  *)
(***************************************************************************)

\* The variant of a shape with a given name.
VariantNamed(shape, ident) ==
    shape[CHOOSE v \in 1..Len(shape) : shape[v].ident = ident]

\* A value is a well-formed value of a shape: its variant exists in it and
\* each member of the variant holds a plain value of the member's type.
ValueOfShape(value, shape) ==
    /\ \E v \in 1..Len(shape) : shape[v].ident = value.variant
    /\ LET variant == VariantNamed(shape, value.variant)
       IN /\ DOMAIN value.fields
                = {BindingOf(variant.fields[n], n - 1) : n \in 1..Len(variant.fields)}
          /\ \A n \in 1..Len(variant.fields) :
                LET f == value.fields[BindingOf(variant.fields[n], n - 1)]
                IN f.ty = variant.fields[n].ty /\ f.refs = 0

\* C19: the owning shape has the variants of the item, each with fields of
\* the same names or positions; to_owned(x) is a value of the owning shape,
\* of the variant named like x's, holding in each member what x holds
\* there; and borrow(to_owned(x)) is x.
C19_EnumRoundTrip ==
    /\ genPc \in {"emit", "done", "converted"} =>
          /\ Len(ownedDecl) = Len(decl)
          /\ \A v \in 1..Len(decl) :
                /\ ownedDecl[v].ident = decl[v].ident
                /\ ownedDecl[v].style = decl[v].style
                /\ Len(ownedDecl[v].fields) = Len(decl[v].fields)
                /\ \A n \in 1..Len(decl[v].fields) :
                      ownedDecl[v].fields[n].ident = decl[v].fields[n].ident
    /\ genPc = "converted" =>
          /\ ValueOfShape(sample, decl)
          /\ ownedSample.variant = sample.variant
          /\ ValueOfShape(ownedSample, ownedDecl)
          /\ \A b \in DOMAIN sample.fields : ownedSample.fields[b].data = sample.fields[b].data
          /\ backSample = sample

\* The items none of whose fields is marked copy.
NoCopyField == \A v \in 1..Len(decl) : \A n \in 1..Len(decl[v].fields) :
                   ~decl[v].fields[n].attr.copy

\* The round trip of C19 for items without copy fields.
C19_RoundTripWithoutCopy == NoCopyField => C19_EnumRoundTrip

\* The enum of tests/build_enum.rs went through both conversions.
C19_TestEnumConverted ==
    /\ genPc = "converted"
    /\ Len(decl) = 3
    /\ decl[1].style = "named" /\ decl[2].style = "unnamed" /\ decl[3].style = "unit"
    /\ \A v \in 1..2 : Len(decl[v].fields) = 1 /\ decl[v].fields[1].attr.ty = "String"
    /\ sample.variant = "Unnamed"
    /\ backSample = sample

(***************************************************************************)
(* The websocket loop (crates/jpv/src/web/ws.rs, run)                      *)
(***************************************************************************)

\* const CLOSE_NORMAL, CLOSE_PROTOCOL_ERROR; CLOSE_TIMEOUT and PING_TIMEOUT in seconds.
CLOSE_NORMAL == 1000

CLOSE_PROTOCOL_ERROR == 1002

CLOSE_TIMEOUT == 30

PING_TIMEOUT == 10

\* The payloads rng.gen::<u32>() draws from, the number of client messages
\* and system events of one connection, and the longest stretch of time
\* that passes between two looks at the loop.
MaxPayload == 2

MaxInputs == 2

TimeStep == 10

Payloads == 1..MaxPayload

\* u32::to_ne_bytes on a little-endian target.
to_ne_bytes(payload) ==
    <<payload % 256, (payload \div 256) % 256,
      (payload \div 65536) % 256, (payload \div 16777216) % 256>>

\* What receiver.next() may yield: a frame of the client, the end of the
\* stream (None) or a transport error. Ping and Pong payloads are the
\* bytes of some payload of the server, a prefix of them, or nothing.
PayloadBytes ==
    {to_ne_bytes(p) : p \in Payloads} \cup {<<>>, SubSeq(to_ne_bytes(1), 1, 3)}

StreamItems ==
    {Frame("Text", <<>>), Frame("Binary", <<>>), Frame("Close", <<>>),
     Frame("None", <<>>), Frame("Err", <<>>)}
        \cup {Frame("Ping", d) : d \in PayloadBytes}
        \cup {Frame("Pong", d) : d \in PayloadBytes}

\* What one pass through the `message = receiver.next()` branch decides:
\* the new last_ping, whether both intervals are reset, the frame sent, and
\* how the loop goes on ("continue", "break" with close_here, "error").
Handled(ping, reset, reply, next, close_here) ==
    [last_ping |-> ping, reset |-> reset, reply |-> reply, next |-> next,
     close_here |-> close_here]

HandleMessage_CloseAnswered(ping, message) ==
    CASE message.type = "None" -> Handled(ping, FALSE, NoFrame, "break", NoFrame)
      [] message.type = "Err" -> Handled(ping, FALSE, NoFrame, "error", NoFrame)
      [] message.type \in {"Text", "Binary"} ->
            Handled(ping, FALSE, NoFrame, "break",
                    CloseFrame(CLOSE_PROTOCOL_ERROR, "unsupported message"))
      [] message.type = "Ping" ->
            Handled(ping, FALSE, Frame("Pong", message.data), "continue", NoFrame)
      [] message.type = "Pong" ->
            IF ping = 0
            THEN Handled(ping, FALSE, NoFrame, "continue", NoFrame)
            ELSE IF to_ne_bytes(ping) # message.data
                 THEN Handled(ping, FALSE, NoFrame, "continue", NoFrame)
                 ELSE Handled(0, TRUE, NoFrame, "continue", NoFrame)
      [] OTHER -> Handled(ping, FALSE, NoFrame, "break",
                          CloseFrame(CLOSE_NORMAL, "closed by client"))

HandleMessage_AnyPongResets(ping, message) ==
    CASE message.type = "None" -> Handled(ping, FALSE, NoFrame, "break", NoFrame)
      [] message.type = "Err" -> Handled(ping, FALSE, NoFrame, "error", NoFrame)
      [] message.type \in {"Text", "Binary"} ->
            Handled(ping, FALSE, NoFrame, "break",
                    CloseFrame(CLOSE_PROTOCOL_ERROR, "unsupported message"))
      [] message.type = "Ping" ->
            Handled(ping, FALSE, Frame("Pong", message.data), "continue", NoFrame)
      [] message.type = "Pong" ->
            IF ping = 0
            THEN Handled(ping, FALSE, NoFrame, "continue", NoFrame)
            ELSE Handled(0, TRUE, NoFrame, "continue", NoFrame)
      [] OTHER -> Handled(ping, FALSE, NoFrame, "break", NoFrame)

HandleMessage(ping, message) ==
    CASE message.type = "None" -> Handled(ping, FALSE, NoFrame, "break", NoFrame)
      [] message.type = "Err" -> Handled(ping, FALSE, NoFrame, "error", NoFrame)
      [] message.type \in {"Text", "Binary"} ->
            Handled(ping, FALSE, NoFrame, "break",
                    CloseFrame(CLOSE_PROTOCOL_ERROR, "unsupported message"))
      [] message.type = "Ping" ->
            Handled(ping, FALSE, Frame("Pong", message.data), "continue", NoFrame)
      [] message.type = "Pong" ->
            IF ping = 0
            THEN Handled(ping, FALSE, NoFrame, "continue", NoFrame)
            ELSE IF to_ne_bytes(ping) # message.data
                 THEN Handled(ping, FALSE, NoFrame, "continue", NoFrame)
                 ELSE Handled(0, TRUE, NoFrame, "continue", NoFrame)
      [] OTHER -> Handled(ping, FALSE, NoFrame, "break", NoFrame)

WsInit ==
    /\ wsPc = "loop"
    /\ last_ping = 0
    /\ closeElapsed = 0
    /\ pingElapsed = 0
    /\ inputs = 0
    /\ lastIn = NoInput
    /\ lastOut = NoFrame
    /\ closeFrame = NoFrame
    /\ wsResult = "-"
    /\ outstanding = 0
    /\ sinceReset = 0
    /\ pending = 0
    /\ channelClosed = FALSE

\* The end of run after `break close_here`: the Close frame, if any, is
\* sent, and run returns Ok unless that send fails.
Leave(close_here, sent) ==
    /\ wsPc' = "done"
    /\ closeFrame' = close_here
    /\ wsResult' = IF close_here = NoFrame \/ sent THEN "Ok" ELSE "Err"

\* Time passes while no interval is due.
Advance ==
    /\ wsPc = "loop"
    /\ closeElapsed < CLOSE_TIMEOUT
    /\ pingElapsed < PING_TIMEOUT
    /\ \E d \in 1..TimeStep :
          /\ \A e \in 1..TimeStep :
                (closeElapsed + e <= CLOSE_TIMEOUT /\ pingElapsed + e <= PING_TIMEOUT) => e <= d
          /\ closeElapsed + d <= CLOSE_TIMEOUT
          /\ pingElapsed + d <= PING_TIMEOUT
          /\ closeElapsed' = closeElapsed + d
          /\ pingElapsed' = pingElapsed + d
          /\ sinceReset' = sinceReset + d
    /\ UNCHANGED <<wsPc, last_ping, inputs, lastIn, lastOut, closeFrame, wsResult, outstanding>>
    /\ UNCHANGED channelVars
    /\ UNCHANGED <<builderVars, conjVars, buildVars, ownedVars, otherVars>>

\* _ = close_interval.tick() => break Some((CLOSE_NORMAL, "connection timed out"))
CloseTick ==
    /\ wsPc = "loop"
    /\ closeElapsed >= CLOSE_TIMEOUT
    /\ \E sent \in BOOLEAN : Leave(CloseFrame(CLOSE_NORMAL, "connection timed out"), sent)
    /\ UNCHANGED <<last_ping, closeElapsed, pingElapsed, inputs, lastIn, lastOut,
                   outstanding, sinceReset, channelVars>>
    /\ UNCHANGED <<builderVars, conjVars, buildVars, ownedVars, otherVars>>

\* _ = ping_interval.tick() => a fresh payload is remembered and sent as a Ping.
PingTick ==
    /\ wsPc = "loop"
    /\ pingElapsed >= PING_TIMEOUT
    /\ \E payload \in Payloads, sent \in BOOLEAN :
          /\ last_ping' = payload
          /\ outstanding' = payload
          /\ lastOut' = Frame("Ping", to_ne_bytes(payload))
          /\ IF sent
             THEN /\ pingElapsed' = 0
                  /\ UNCHANGED <<wsPc, wsResult>>
             ELSE /\ wsPc' = "done"
                  /\ wsResult' = "Err"
                  /\ UNCHANGED pingElapsed
    /\ UNCHANGED <<closeElapsed, inputs, lastIn, closeFrame, sinceReset, channelVars>>
    /\ UNCHANGED <<builderVars, conjVars, buildVars, ownedVars, otherVars>>

\* tokio::sync::broadcast::channel(16): the number of events the channel
\* retains for a receiver.
CHANNEL_CAPACITY == 16

\* A receiver that is more than CHANNEL_CAPACITY events behind has lagged.
Lagging == CHANNEL_CAPACITY + 1

\* What Receiver::recv returns with n events unseen: the oldest event,
\* Lagged once events were overwritten, Closed on an empty channel without
\* senders.
RecvOutcome(n, closed) ==
    CASE n >= Lagging -> "Lagged"
      [] n > 0 -> "Event"
      [] closed -> "Closed"
      [] OTHER -> "Pending"

\* The events that queue up one by one before the sender gets ahead of the
\* receiver by more than the capacity.
MaxBacklog == 2

\* SystemEvents::send, called once or often enough to overrun the receiver
\* before the loop is polled again: the events queue up for the subscriber,
\* and the oldest are overwritten when the channel is full.
Send ==
    /\ wsPc = "loop"
    /\ ~channelClosed
    /\ \E n \in {1, Lagging} :
          /\ n = 1 => pending < MaxBacklog
          /\ pending' = IF pending + n < Lagging THEN pending + n ELSE Lagging
    /\ UNCHANGED channelClosed
    /\ UNCHANGED <<wsPc, last_ping, closeElapsed, pingElapsed, inputs, lastIn, lastOut,
                   closeFrame, wsResult, outstanding, sinceReset>>
    /\ UNCHANGED <<builderVars, conjVars, buildVars, ownedVars, otherVars>>

\* The last clone of SystemEvents is dropped.
DropSenders ==
    /\ wsPc = "loop"
    /\ ~channelClosed
    /\ channelClosed' = TRUE
    /\ UNCHANGED pending
    /\ UNCHANGED <<wsPc, last_ping, closeElapsed, pingElapsed, inputs, lastIn, lastOut,
                   closeFrame, wsResult, outstanding, sinceReset>>
    /\ UNCHANGED <<builderVars, conjVars, buildVars, ownedVars, otherVars>>

\* event = system_events.recv() => the event is forwarded (a failure is
\* only logged), or the loop ends when recv returns an error.
SystemEvent_LaggedSkipped ==
    /\ wsPc = "loop"
    /\ inputs < MaxInputs
    /\ RecvOutcome(pending, channelClosed) # "Pending"
    /\ inputs' = inputs + 1
    /\ pending' = IF pending >= Lagging THEN CHANNEL_CAPACITY
                  ELSE IF pending > 0 THEN pending - 1 ELSE pending
    /\ CASE RecvOutcome(pending, channelClosed) = "Event" ->
               /\ lastOut' = Frame("Binary", <<>>)
               /\ UNCHANGED <<wsPc, closeFrame, wsResult>>
         [] RecvOutcome(pending, channelClosed) = "Lagged" -> UNCHANGED <<lastOut, wsPc, closeFrame, wsResult>>
         [] OTHER ->
               /\ \E sent \in BOOLEAN :
                     Leave(CloseFrame(CLOSE_NORMAL, "system shutting down"), sent)
               /\ UNCHANGED lastOut
    /\ UNCHANGED <<last_ping, closeElapsed, pingElapsed, lastIn, outstanding, sinceReset,
                   channelClosed>>
    /\ UNCHANGED <<builderVars, conjVars, buildVars, ownedVars, otherVars>>

SystemEvent ==
    /\ wsPc = "loop"
    /\ inputs < MaxInputs
    /\ RecvOutcome(pending, channelClosed) # "Pending"
    /\ inputs' = inputs + 1
    /\ pending' = IF pending >= Lagging THEN CHANNEL_CAPACITY
                  ELSE IF pending > 0 THEN pending - 1 ELSE pending
    /\ IF RecvOutcome(pending, channelClosed) = "Event"
       THEN /\ lastOut' = Frame("Binary", <<>>)
            /\ UNCHANGED <<wsPc, closeFrame, wsResult>>
       ELSE /\ \E sent \in BOOLEAN :
                  Leave(CloseFrame(CLOSE_NORMAL, "system shutting down"), sent)
            /\ UNCHANGED lastOut
    /\ UNCHANGED <<last_ping, closeElapsed, pingElapsed, lastIn, outstanding, sinceReset,
                   channelClosed>>
    /\ UNCHANGED <<builderVars, conjVars, buildVars, ownedVars, otherVars>>

\* message = receiver.next() => one item of the client's stream is handled.
Receive ==
    /\ wsPc = "loop"
    /\ inputs < MaxInputs
    /\ inputs' = inputs + 1
    /\ \E message \in StreamItems, sent \in BOOLEAN :
          LET h == HandleMessage(last_ping, message)
              answers == /\ message.type = "Pong"
                         /\ outstanding # 0
                         /\ message.data = to_ne_bytes(outstanding)
          IN /\ last_ping' = h.last_ping
             /\ closeElapsed' = IF h.reset THEN 0 ELSE closeElapsed
             /\ pingElapsed' = IF h.reset THEN 0 ELSE pingElapsed
             /\ lastOut' = h.reply
             /\ lastIn' = [seq |-> inputs', msg |-> message, outstanding |-> outstanding,
                           closeBefore |-> closeElapsed, closeAfter |-> closeElapsed']
             /\ outstanding' = IF answers THEN 0 ELSE outstanding
             /\ sinceReset' = IF answers THEN 0 ELSE sinceReset
             /\ CASE h.next = "break" -> Leave(h.close_here, sent)
                  [] h.next = "error" \/ (h.reply # NoFrame /\ ~sent) ->
                        /\ wsPc' = "done"
                        /\ wsResult' = "Err"
                        /\ UNCHANGED closeFrame
                  [] OTHER -> UNCHANGED <<wsPc, closeFrame, wsResult>>
    /\ UNCHANGED channelVars
    /\ UNCHANGED <<builderVars, conjVars, buildVars, ownedVars, otherVars>>

WsSpecInit == WsInit /\ BuilderIdle /\ ConjIdle /\ BuildIdle /\ OwnedIdle /\ OtherIdle

WsNext ==
    Advance \/ CloseTick \/ PingTick \/ SystemEvent \/ Receive \/ Send \/ DropSenders

WsSpec == WsSpecInit /\ [][WsNext]_vars

\* The loop is polled whenever an interval is due: a due close tick is
\* taken unless the loop ends or the timer is reset first.
WsFairSpec == WsSpec /\ WF_vars(CloseTick)

\* A Pong answers the outstanding Ping when its payload is that Ping's.
Answers(step) ==
    /\ step.msg.type = "Pong"
    /\ step.outstanding # 0
    /\ step.msg.data = to_ne_bytes(step.outstanding)

TimedOut == closeFrame = CloseFrame(CLOSE_NORMAL, "connection timed out")

C20_TimerSafety ==
    /\ closeElapsed = sinceReset
    /\ wsPc = "loop" => sinceReset <= CLOSE_TIMEOUT
    /\ TimedOut => sinceReset = CLOSE_TIMEOUT
    /\ lastIn.closeAfter = (IF Answers(lastIn) THEN 0 ELSE lastIn.closeBefore)
    /\ lastIn.msg.type = "Ping" => lastIn.closeAfter = lastIn.closeBefore

\* C20: the loop closes with code 1000 "connection timed out" 30 s after
\* the last reset of the close timer; the close timer is reset only by a
\* Pong whose payload is that of the most recent Ping not yet answered (any
\* other Pong, a Pong with no Ping outstanding, or a second Pong for the
\* same Ping resets nothing); a Ping of the client is answered with a Pong
\* of the same payload and never resets the close timer.
C20_CloseTimer ==
    /\ []C20_TimerSafety
    /\ [][lastIn'.msg.type = "Ping" /\ lastIn'.seq # lastIn.seq
              => lastOut' = Frame("Pong", lastIn'.msg.data)]_vars
    /\ (wsPc = "loop" /\ sinceReset = CLOSE_TIMEOUT)
          ~> (TimedOut \/ wsPc = "done" \/ sinceReset < CLOSE_TIMEOUT)

\* The loop timed out 30 s after a Pong that answered the outstanding Ping,
\* having ignored a later Pong.
C20_Witness ==
    /\ TimedOut
    /\ lastIn.msg.type = "Pong"
    /\ ~Answers(lastIn)
    /\ lastIn.closeBefore > 0
    /\ inputs >= 2
    /\ sinceReset = CLOSE_TIMEOUT

UnsupportedMessage == CloseFrame(CLOSE_PROTOCOL_ERROR, "unsupported message")

C21_CloseFrames ==
    /\ lastIn.msg.type \in {"Text", "Binary"} => (wsPc = "done" /\ closeFrame = UnsupportedMessage)
    /\ lastIn.msg.type \in {"Close", "None"} => (wsPc = "done" /\ closeFrame = NoFrame)
    /\ lastOut.type # "Close"
    /\ closeFrame # NoFrame => wsPc = "done"

\* C21: a Text or Binary frame of the client stops the loop and exactly one
\* Close frame, code 1002 "unsupported message", is sent; a Close of the
\* client or the end of the stream stops the loop and no Close frame is
\* sent; at most one Close frame is sent and nothing is sent after it.
C21_OneCloseFrame ==
    /\ []C21_CloseFrames
    /\ [][wsPc = "done" => UNCHANGED <<lastOut, closeFrame>>]_vars
    /\ [][closeFrame' # closeFrame
              => (closeFrame = NoFrame /\ wsPc = "loop" /\ lastOut' \in {lastOut, NoFrame})]_vars

\* A Binary frame arrived while a Ping was outstanding and was refused.
C21_Witness ==
    /\ lastIn.msg.type = "Binary"
    /\ lastIn.outstanding # 0
    /\ closeFrame = UnsupportedMessage
    /\ wsResult = "Ok"

\* The client closed, and nothing was sent in return.
C21_WitnessClientClose ==
    /\ lastIn.msg.type = "Close"
    /\ wsPc = "done"
    /\ closeFrame = NoFrame

ShuttingDown == CloseFrame(CLOSE_NORMAL, "system shutting down")

\* C28: the loop closes a connection with reason "system shutting down"
\* only when the system event channel has been closed; a receiver that has
\* merely fallen more than the channel capacity behind keeps running.
C28_ShutdownOnlyWhenClosed == closeFrame = ShuttingDown => channelClosed

\* The loop never closes with "system shutting down" while fewer events
\* than the lagging threshold are unseen and a sender is alive.
C28_ShutdownWhenClosedOrLagged ==
    closeFrame = ShuttingDown => (channelClosed \/ pending >= CHANNEL_CAPACITY)

\* The connection was closed as a shutdown although a sender is alive.
C28_LaggedClosed == closeFrame = ShuttingDown /\ ~channelClosed /\ wsResult = "Ok"

(***************************************************************************)
(* The D-Bus service (crates/jpv/src/dbus/real.rs, setup)                  *)
(***************************************************************************)

\* const PATH
PATH == "/se/tedro/JapaneseDictionary"

\* The ports the service may have been given, and the number of messages
\* one run of the service processes.
MaxPort == 2

MaxCalls == 2

\* The messages the connection may deliver: method calls with a known or
\* unknown path and member (or none), whose arguments read or not, and a
\* message of another type.
Messages ==
    {DbusMessage("MethodCall", p, m, a) :
        p \in {PATH, "/other", "-"},
        m \in {"GetPort", "SendClipboardData", "Shutdown", "Other", "-"},
        a \in {"ok", "bad"}}
      \cup {DbusMessage("Signal", PATH, "Shutdown", "ok")}

\* handle_method_call: the state it leaves, the reply, and whether an event
\* was sent to the broadcast channel.
Handling(state, reply, broadcast) ==
    [state |-> state, reply |-> reply, broadcast |-> broadcast]

handle_method_call_AnyPath(state, msg) ==
    CASE msg.path = "-" -> Handling(state, Reply("error", 0), FALSE)
      [] msg.member = "-" -> Handling(state, Reply("error", 0), FALSE)
      [] msg.member = "GetPort" -> Handling(state, Reply("return", state.port), FALSE)
      [] msg.member = "SendClipboardData" ->
            IF msg.args = "ok"
            THEN Handling(state, Reply("return", 0), TRUE)
            ELSE Handling(state, Reply("error", 0), FALSE)
      [] msg.member = "Shutdown" ->
            Handling([state EXCEPT !.stop = TRUE], Reply("return", 0), FALSE)
      [] OTHER -> Handling(state, Reply("error", 0), FALSE)

handle_method_call(state, msg) ==
    CASE msg.path = "-" -> Handling(state, Reply("error", 0), FALSE)
      [] msg.member = "-" -> Handling(state, Reply("error", 0), FALSE)
      [] msg.path # PATH -> Handling(state, Reply("error", 0), FALSE)
      [] msg.member = "GetPort" -> Handling(state, Reply("return", state.port), FALSE)
      [] msg.member = "SendClipboardData" ->
            IF msg.args = "ok"
            THEN Handling(state, Reply("return", 0), TRUE)
            ELSE Handling(state, Reply("error", 0), FALSE)
      [] msg.member = "Shutdown" ->
            Handling([state EXCEPT !.stop = TRUE], Reply("return", 0), FALSE)
      [] OTHER -> Handling(state, Reply("error", 0), FALSE)

\* The callback given to start_receive: only method calls are handled, and
\* the reply or the error is sent back.
Callback(state, msg) ==
    IF msg.type = "MethodCall"
    THEN handle_method_call(state, msg)
    ELSE Handling(state, NoReply, FALSE)

\* setup has returned Setup::Future(Some(..)): the task is spawned, the
\* future is being awaited.
DbusInit ==
    /\ stop = FALSE
    /\ port \in 1..MaxPort
    /\ taskPc = "check"
    /\ taskResult = "-"
    /\ futurePc = "select"
    /\ futureResult = "-"
    /\ notified = FALSE
    /\ fused = FALSE
    /\ calls = 0
    /\ lastCall = NoCall

\* while !stop.load(Ordering::Acquire)
Check ==
    /\ taskPc = "check"
    /\ IF stop
       THEN /\ taskPc' = "returned"
            /\ taskResult' = "Ok"
       ELSE /\ taskPc' = "process"
            /\ UNCHANGED taskResult
    /\ UNCHANGED <<stop, port, futurePc, futureResult, notified, fused, calls, lastCall>>
    /\ UNCHANGED <<builderVars, conjVars, buildVars, ownedVars, wsVars, lifeVars, queryVars,
                   promptVars>>

\* c.process(sleep)?: the call times out, fails, or delivers one message to
\* the callback.
Process ==
    /\ taskPc = "process"
    /\ \/ /\ taskPc' = "check"
          /\ UNCHANGED <<stop, port, taskResult, calls, lastCall, wsVars>>
       \/ /\ taskPc' = "returned"
          /\ taskResult' = "Err"
          /\ UNCHANGED <<stop, port, calls, lastCall, wsVars>>
       \/ /\ calls < MaxCalls
          /\ \E msg \in Messages :
                LET h == Callback([port |-> port, stop |-> stop], msg)
                IN /\ stop' = h.state.stop
                   /\ port' = h.state.port
                   /\ calls' = calls + 1
                   /\ taskPc' = "check"
                   /\ lastCall' = [seq |-> calls', msg |-> msg, reply |-> h.reply,
                                   stopBefore |-> stop, stopAfter |-> stop',
                                   portBefore |-> port, portAfter |-> port']
                   /\ pending' = IF h.broadcast /\ wsPc = "loop" /\ pending < Lagging
                                 THEN pending + 1 ELSE pending
          /\ UNCHANGED <<taskResult, wsPc, last_ping, closeElapsed, pingElapsed, inputs,
                         lastIn, lastOut, closeFrame, wsResult, outstanding, sinceReset,
                         channelClosed>>
    /\ UNCHANGED <<futurePc, futureResult, notified, fused>>
    /\ UNCHANGED <<builderVars, conjVars, buildVars, ownedVars, lifeVars, queryVars, promptVars>>

\* The service is told to shut down: the Notified future becomes ready.
Notify ==
    /\ futurePc = "select"
    /\ ~notified
    /\ notified' = TRUE
    /\ UNCHANGED <<stop, port, taskPc, taskResult, futurePc, futureResult, fused, calls,
                   lastCall>>
    /\ UNCHANGED <<builderVars, conjVars, buildVars, ownedVars, wsVars, lifeVars, queryVars,
                   promptVars>>

\* _ = shutdown.as_mut() => { stop.store(true); continue; }
SelectShutdown ==
    /\ futurePc = "select"
    /\ notified
    /\ ~fused
    /\ fused' = TRUE
    /\ stop' = TRUE
    /\ UNCHANGED <<port, taskPc, taskResult, futurePc, futureResult, notified, calls, lastCall>>
    /\ UNCHANGED <<builderVars, conjVars, buildVars, ownedVars, wsVars, lifeVars, queryVars,
                   promptVars>>

\* result = task.as_mut() => { result??; return Ok(()); }
SelectTask ==
    /\ futurePc = "select"
    /\ taskPc = "returned"
    /\ futurePc' = "done"
    /\ futureResult' = taskResult
    /\ UNCHANGED <<stop, port, taskPc, taskResult, notified, fused, calls, lastCall>>
    /\ UNCHANGED <<builderVars, conjVars, buildVars, ownedVars, wsVars, lifeVars, queryVars,
                   promptVars>>

DbusSpecInit ==
    /\ DbusInit /\ BuilderIdle /\ ConjIdle /\ BuildIdle /\ OwnedIdle /\ WsIdle
    /\ LifeIdle /\ QueryIdle /\ PromptIdle

DbusNext == Check \/ Process \/ Notify \/ SelectShutdown \/ SelectTask

DbusSpec == DbusSpecInit /\ [][DbusNext]_vars

\* The blocking task runs on its own thread and the future is polled by the
\* runtime whenever one of its branches is ready.
DbusFairSpec ==
    /\ DbusSpec
    /\ WF_vars(Check)
    /\ WF_vars(Process)
    /\ WF_vars(SelectShutdown)
    /\ WF_vars(SelectTask)

KnownMembers == {"GetPort", "SendClipboardData", "Shutdown"}

\* The last message was a method call whose path or member is not one of
\* the service.
UnknownCall ==
    /\ lastCall.msg.type = "MethodCall"
    /\ lastCall.msg.path # PATH \/ lastCall.msg.member \notin KnownMembers

\* The last message was a Shutdown call to the service.
ShutdownCall ==
    /\ lastCall.msg.type = "MethodCall"
    /\ lastCall.msg.path = PATH
    /\ lastCall.msg.member = "Shutdown"

C22_StopSafety ==
    /\ ShutdownCall => stop
    /\ fused => stop
    /\ futurePc = "done" => taskPc = "returned"
    /\ UnknownCall =>
          /\ lastCall.reply.kind = "error"
          /\ lastCall.stopAfter = lastCall.stopBefore
          /\ lastCall.portAfter = lastCall.portBefore

\* C22: once a Shutdown call is handled or the shutdown notification fires,
\* the stop flag is set and never cleared, the receive loop exits after its
\* current process call, and the future of setup eventually completes, never
\* before the receive task has returned; a call with an unknown path or
\* member gets an error reply, leaves port and stop flag as they were and
\* does not stop the receive loop.
C22_Shutdown ==
    /\ []C22_StopSafety
    /\ [][stop => stop']_vars
    /\ [][(stop /\ taskPc = "check" /\ taskPc' # taskPc) => taskPc' = "returned"]_vars
    /\ [][(lastCall'.seq # lastCall.seq /\ UnknownCall' /\ ~stop) => taskPc' = "check" /\ ~stop']_vars
    /\ stop ~> (taskPc = "returned")
    /\ (notified \/ ShutdownCall) ~> (futurePc = "done")

\* The service was shut down by a Shutdown call that followed a call with
\* an unknown path, and the future has completed.
C22_Witness ==
    /\ ShutdownCall
    /\ lastCall.seq = MaxCalls
    /\ ~notified
    /\ futurePc = "done"
    /\ futureResult = "Ok"

\* A Shutdown call to an unknown path left the service running.
C22_WitnessUnknown ==
    /\ UnknownCall
    /\ lastCall.msg.member = "Shutdown"
    /\ ~stop
    /\ taskPc = "process"

(***************************************************************************)
(* Lifetimes of fields that keep their type                                *)
(* (crates/owned-macros/src/implement.rs, ensure_no_lifetimes)             *)
(***************************************************************************)

\* How deep the field types nest.
MaxDepth == 2

\* The types one level above the types of `inner`: references with and
\* without a lifetime, arrays, slices, groups, parenthesised types, raw
\* pointers, tuples, paths with a generic type argument (Option<T>) or a
\* lifetime argument (Cow<'a, str>), and fn pointers with or without a
\* for<'a> clause, taking or returning a type of `inner`.
TypesOver(inner) ==
    {U32, Type("Path", "a", {}, <<>>, <<>>)}
      \cup {Type("Reference", lt, {}, <<t>>, <<>>) : lt \in {"-", "a"}, t \in inner}
      \cup {Type(k, "-", {}, <<t>>, <<>>) :
              k \in {"Array", "Slice", "Group", "Paren", "Ptr", "Tuple", "Path"}, t \in inner}
      \cup {Type("Tuple", "-", {}, <<U32, t>>, <<>>) : t \in inner}
      \cup {Type("BareFn", "-", b, <<t>>, <<>>) : b \in {{}, {"a"}}, t \in inner}
      \cup {Type("BareFn", "-", b, <<U32>>, <<t>>) : b \in {{}, {"a"}}, t \in inner}

RECURSIVE TypesOfDepth(_)
TypesOfDepth(d) == IF d = 0 THEN {U32} ELSE TypesOver(TypesOfDepth(d - 1))

Types == TypesOfDepth(MaxDepth)

\* ensure_no_lifetimes: the number of errors it reports for ty.
RECURSIVE ensure_no_lifetimes(_, _)
ensure_no_lifetimes(ty, ignore) ==
    LET Sum(tys) ==
            LET RECURSIVE Upto(_)
                Upto(n) == IF n = 0 THEN 0
                           ELSE Upto(n - 1) + ensure_no_lifetimes(tys[n], ignore)
            IN Upto(Len(tys))
    IN CASE ty.kind \in {"Array", "Group", "Slice"} ->
                ensure_no_lifetimes(ty.elems[1], ignore)
         [] ty.kind = "BareFn" ->
                ensure_no_lifetimes(ty.elems[1], ignore \cup ty.bound)
         [] ty.kind = "Reference" ->
                IF ty.lifetime # "-" /\ ty.lifetime \in ignore THEN 0 ELSE 1
         [] ty.kind = "Tuple" -> Sum(ty.elems)
         [] OTHER -> 0

\* process_fields has reached a field of the item.
LifeInit ==
    /\ fieldTy \in Types
    /\ fieldAttr \in {"Original", "Type"}
    /\ fieldPc = "field"
    /\ errors = 0

\* attr::FieldType::Original => ensure_no_lifetimes(cx, field.span(), &field.ty, &ignore)
KeepOriginal ==
    /\ fieldPc = "field"
    /\ fieldAttr = "Original"
    /\ errors' = ensure_no_lifetimes(fieldTy, {})
    /\ fieldPc' = "done"
    /\ UNCHANGED <<fieldTy, fieldAttr>>
    /\ UNCHANGED <<builderVars, conjVars, buildVars, ownedVars, wsVars, dbusVars, queryVars,
                   promptVars>>

\* attr::FieldType::Type(ty) => field.ty = ty: the field takes the owned
\* type of the attribute, here String.
OverrideType ==
    /\ fieldPc = "field"
    /\ fieldAttr = "Type"
    /\ fieldTy' = U32
    /\ fieldPc' = "done"
    /\ UNCHANGED <<fieldAttr, errors>>
    /\ UNCHANGED <<builderVars, conjVars, buildVars, ownedVars, wsVars, dbusVars, queryVars,
                   promptVars>>

LifeSpecInit ==
    /\ LifeInit /\ BuilderIdle /\ ConjIdle /\ BuildIdle /\ OwnedIdle /\ WsIdle
    /\ DbusIdle /\ QueryIdle /\ PromptIdle

LifeNext == KeepOriginal \/ OverrideType

LifeSpec == LifeSpecInit /\ [][LifeNext]_vars

\* A type mentions a reference or a lifetime: anywhere in it there is a
\* reference or a lifetime argument, other than with a lifetime bound by the
\* for<..> clause of a fn pointer around it.
RECURSIVE Mentions(_, _)
Mentions(ty, ignore) ==
    \/ ty.kind = "Reference" /\ (ty.lifetime = "-" \/ ty.lifetime \notin ignore)
    \/ ty.kind = "Path" /\ ty.lifetime # "-" /\ ty.lifetime \notin ignore
    \/ \E n \in 1..Len(ty.elems) : Mentions(ty.elems[n], ignore \cup ty.bound)
    \/ \E n \in 1..Len(ty.output) : Mentions(ty.output[n], ignore \cup ty.bound)

\* C23: for every field that keeps its original type and whose type
\* mentions a reference or a lifetime anywhere in it (directly, or inside an
\* array, slice, tuple, generic argument, or fn-pointer argument or return
\* type), an error is reported, except for lifetimes bound by the fn
\* pointer's own for<...> clause.
C23_LifetimesRejected ==
    (fieldPc = "done" /\ fieldAttr = "Original" /\ Mentions(fieldTy, {})) => errors > 0

\* An error is reported only for a type that mentions a reference or
\* lifetime, and never for a field whose type is overridden.
C23_NoFalseError == errors > 0 => (fieldAttr = "Original" /\ Mentions(fieldTy, {}))

\* Option<&'a u32> was accepted.
C23_GenericArgumentAccepted ==
    /\ fieldPc = "done"
    /\ fieldAttr = "Original"
    /\ fieldTy = Type("Path", "-", {}, <<Type("Reference", "a", {}, <<U32>>, <<>>)>>, <<>>)
    /\ errors = 0

(***************************************************************************)
(* The query of the prompt (crates/web/src/components/prompt.rs, Query)    *)
(***************************************************************************)

\* The largest index and the longest analysis list of a query.
MaxIndex == 11

MaxSegments == 2

Modes == {"Unfiltered", "Hiragana", "Katakana"}

\* The texts a query is made of; the empty text is one of them.
QueryTexts == {<<>>, <<"k", "a">>}

Digit == <<"0", "1", "2", "3", "4", "5", "6", "7", "8", "9">>

\* usize::to_string: the decimal digits, most significant first.
RECURSIVE to_string(_)
to_string(n) ==
    IF n < 10 THEN <<Digit[n + 1]>> ELSE to_string(n \div 10) \o <<Digit[(n % 10) + 1]>>

\* The value of a digit, -1 for any other character.
DigitValue(c) == IF \E d \in 1..10 : Digit[d] = c THEN (CHOOSE d \in 1..10 : Digit[d] = c) - 1 ELSE -1

\* str::parse::<usize>: the number, or -1 for Err (no digit at all, or a
\* character that is not a digit; one leading + is accepted).
RECURSIVE ParseDigits(_, _)
ParseDigits(text, acc) ==
    IF text = <<>> THEN acc
    ELSE IF DigitValue(Head(text)) < 0 THEN -1
    ELSE ParseDigits(Tail(text), acc * 10 + DigitValue(Head(text)))

parse(text) ==
    LET digits == IF text # <<>> /\ Head(text) = "+" THEN Tail(text) ELSE text
    IN IF digits = <<>> THEN -1 ELSE ParseDigits(digits, 0)

\* The text of a mode in a query string.
ModeText(mode) ==
    IF mode = "Hiragana" THEN <<"h", "i", "r", "a", "g", "a", "n", "a">>
    ELSE <<"k", "a", "t", "a", "k", "a", "n", "a">>

Pair(key, value) == [key |-> key, value |-> value]

RECURSIVE PairsOf(_, _)
PairsOf(key, values) ==
    IF values = <<>> THEN <<>>
    ELSE <<Pair(key, Head(values))>> \o PairsOf(key, Tail(values))

\* Query::serialize
serialize_IndexAlways(this) ==
    (IF this.q # <<>> THEN <<Pair("q", this.q)>> ELSE <<>>)
      \o PairsOf("t", this.translation)
      \o PairsOf("a", this.a)
      \o (IF this.i > 1 THEN <<Pair("i", to_string(this.i))>> ELSE <<>>)
      \o (IF this.mode = "Unfiltered" THEN <<>> ELSE <<Pair("mode", ModeText(this.mode))>>)

serialize(this) ==
    (IF this.q # <<>> THEN <<Pair("q", this.q)>> ELSE <<>>)
      \o PairsOf("t", this.translation)
      \o PairsOf("a", this.a)
      \o (IF this.i # 0 THEN <<Pair("i", to_string(this.i))>> ELSE <<>>)
      \o (IF this.mode = "Unfiltered" THEN <<>> ELSE <<Pair("mode", ModeText(this.mode))>>)

\* One turn of the loop of Query::deserialize.
DeserializePair(this, pair) ==
    CASE pair.key = "q" -> [this EXCEPT !.q = pair.value]
      [] pair.key = "t" -> [this EXCEPT !.translation = <<pair.value>>]
      [] pair.key = "a" -> [this EXCEPT !.a = Append(@, pair.value)]
      [] pair.key = "i" ->
            IF parse(pair.value) >= 0 THEN [this EXCEPT !.i = parse(pair.value)] ELSE this
      [] pair.key = "mode" ->
            [this EXCEPT !.mode =
                CASE pair.value = ModeText("Hiragana") -> "Hiragana"
                  [] pair.value = ModeText("Katakana") -> "Katakana"
                  [] OTHER -> "Unfiltered"]
      [] OTHER -> this

\* Query::deserialize
RECURSIVE DeserializeFrom(_, _)
DeserializeFrom(this, pairs) ==
    IF pairs = <<>> THEN this
    ELSE DeserializeFrom(DeserializePair(this, Head(pairs)), Tail(pairs))

deserialize(pairs) == DeserializeFrom(DefaultQuery, pairs)

\* The analysis lists of at most MaxSegments texts.
SegmentLists == UNION {[1..n -> QueryTexts] : n \in 0..MaxSegments}

Queries ==
    {Query(q, t, a, i, mode) :
        q \in QueryTexts,
        t \in {<<>>} \cup {<<x>> : x \in {<<>>, <<"k", "a">>}},
        a \in SegmentLists,
        i \in {0, 1, 9, 10, MaxIndex},
        mode \in Modes}

\* Pairs that deserialize ignores: an unknown key, and an i that does not
\* parse.
IgnoredPairs ==
    {Pair("x", <<"1">>), Pair("i", <<>>), Pair("i", <<"1", "a">>)}

QueryInit ==
    /\ qIn \in Queries
    /\ raw = <<>>
    /\ qOut = DefaultQuery
    /\ queryPc = "query"

\* let query = self.query.serialize()
Serialize ==
    /\ queryPc = "query"
    /\ raw' = serialize(qIn)
    /\ queryPc' = "pairs"
    /\ UNCHANGED <<qIn, qOut>>
    /\ UNCHANGED <<builderVars, conjVars, buildVars, ownedVars, wsVars, dbusVars, lifeVars,
                   promptVars>>

\* The query string arrives with one pair that deserialize ignores.
Foreign ==
    /\ queryPc = "pairs"
    /\ raw = serialize(qIn)
    /\ \E pair \in IgnoredPairs, n \in 0..Len(raw) :
          raw' = SubSeq(raw, 1, n) \o <<pair>> \o SubSeq(raw, n + 1, Len(raw))
    /\ UNCHANGED <<qIn, qOut, queryPc>>
    /\ UNCHANGED <<builderVars, conjVars, buildVars, ownedVars, wsVars, dbusVars, lifeVars,
                   promptVars>>

\* The query string arrives with a mode that is not known, in place of
\* the mode the query had.
ForeignMode ==
    /\ queryPc = "pairs"
    /\ raw' = SelectSeq(raw, LAMBDA pair : pair.key # "mode") \o <<Pair("mode", <<"k", "a">>)>>
    /\ raw = serialize(qIn)
    /\ UNCHANGED <<qIn, qOut, queryPc>>
    /\ UNCHANGED <<builderVars, conjVars, buildVars, ownedVars, wsVars, dbusVars, lifeVars,
                   promptVars>>

\* let query = Query::deserialize(query)
Deserialize ==
    /\ queryPc = "pairs"
    /\ qOut' = deserialize(raw)
    /\ queryPc' = "done"
    /\ UNCHANGED <<qIn, raw>>
    /\ UNCHANGED <<builderVars, conjVars, buildVars, ownedVars, wsVars, dbusVars, lifeVars,
                   promptVars>>

QuerySpecInit ==
    /\ QueryInit /\ BuilderIdle /\ ConjIdle /\ BuildIdle /\ OwnedIdle /\ WsIdle
    /\ DbusIdle /\ LifeIdle /\ PromptIdle

QueryNext == Serialize \/ Foreign \/ ForeignMode \/ Deserialize

QuerySpec == QuerySpecInit /\ [][QueryNext]_vars

UnknownMode == \E n \in 1..Len(raw) : raw[n] = Pair("mode", <<"k", "a">>)

\* C27: Query::deserialize applied to the pairs of Query::serialize returns
\* an equal Query, for any q, optional translation, list a, index i and mode;
\* unknown keys and an unparsable i are ignored, and an unknown mode value
\* reads as Unfiltered.
C27_QueryRoundTrip ==
    queryPc = "done" =>
        IF UnknownMode
        THEN qOut = [qIn EXCEPT !.mode = "Unfiltered"]
        ELSE qOut = qIn

\* A query with an empty q, an empty translation, two segments, a two-digit
\* index and a mode came back, past an i that does not parse.
C27_Witness ==
    /\ queryPc = "done"
    /\ qIn.q = <<>>
    /\ qIn.translation = <<<<>>>>
    /\ Len(qIn.a) = MaxSegments
    /\ qIn.i >= 10
    /\ qIn.mode = "Katakana"
    /\ \E n \in 1..Len(raw) : raw[n] = Pair("i", <<"1", "a">>)
    /\ qOut = qIn

\* An unknown mode was read as Unfiltered.
C27_WitnessUnknownMode ==
    /\ queryPc = "done"
    /\ UnknownMode
    /\ qIn.mode = "Hiragana"
    /\ qOut.mode = "Unfiltered"

(***************************************************************************)
(* The prompt (crates/web/src/components/prompt.rs, Prompt)                *)
(***************************************************************************)

\* The number of search requests, and of analyze requests, in flight.
MaxInFlight == 2

\* The kana of the syllable ka, each one character of a text.
HiraganaKa == "hiragana-ka"

KatakanaKa == "katakana-ka"

\* What is typed into the prompt, and what an analysis may return.
Inputs == {<<"k", "a">>, <<"K">>}

Analyses == {<<>>, <<<<HiraganaKa>>>>, <<<<HiraganaKa>>, <<KatakanaKa>>>>}

Translations == {<<>>, <<<<"k", "a">>>>}

\* str::to_lowercase
LowerChar(c) == IF c = "K" THEN "k" ELSE c

to_lowercase(text) == [n \in 1..Len(text) |-> LowerChar(text[n])]

\* romaji::analyze with Segment::hiragana or Segment::katakana: the syllable
\* ka becomes kana, every other character passes through.
RECURSIVE Transliterate(_, _)
Transliterate(text, kana) ==
    IF text = <<>> THEN <<>>
    ELSE IF Len(text) >= 2 /\ SubSeq(text, 1, 2) = <<"k", "a">>
         THEN <<kana>> \o Transliterate(SubSeq(text, 3, Len(text)), kana)
         ELSE <<Head(text)>> \o Transliterate(Tail(text), kana)

\* The match on self.query.mode that Mode, Change and ForceChange share.
process_query(input, mode) ==
    CASE mode = "Hiragana" -> Transliterate(input, HiraganaKa)
      [] mode = "Katakana" -> Transliterate(input, KatakanaKa)
      [] OTHER -> input

\* An entry of a search result: its key and the entry found.
Hit(key, text) == [key |-> key, entry |-> text]

\* db.search(input) and fetch::search(input): the entries in the order of
\* the index, not of their keys, and the characters of the input.
SearchResult(input) ==
    IF input = <<>>
    THEN [entries |-> <<>>, characters |-> <<>>]
    ELSE [entries |-> <<Hit(2, input), Hit(1, input)>>, characters |-> <<input>>]

\* self.entries.sort_by(|(a, _), (b, _)| a.key.cmp(&b.key)): a stable sort.
RECURSIVE InsertByKey(_, _)
InsertByKey(sorted, hit) ==
    IF sorted = <<>> THEN <<hit>>
    ELSE IF Head(sorted).key <= hit.key
         THEN <<Head(sorted)>> \o InsertByKey(Tail(sorted), hit)
         ELSE <<hit>> \o sorted

RECURSIVE sort_by_key(_)
sort_by_key(hits) ==
    IF hits = <<>> THEN <<>>
    ELSE InsertByKey(sort_by_key(SubSeq(hits, 1, Len(hits) - 1)), hits[Len(hits)])

\* Prompt::refresh
refresh(input) ==
    /\ issued' = to_lowercase(input)
    /\ IF db = "local"
       THEN /\ \/ /\ entries' = sort_by_key(SearchResult(to_lowercase(input)).entries)
                  /\ completed' = TRUE
                  /\ newest' = "answered"
               \/ /\ newest' = "failed"
                  /\ UNCHANGED <<entries, completed>>
            /\ UNCHANGED <<characters, searches>>
       ELSE /\ searches' = searches \cup {to_lowercase(input)}
            /\ Cardinality(searches') <= MaxInFlight
            /\ newest' = "pending"
            /\ UNCHANGED <<entries, characters, completed>>

NoRefresh == UNCHANGED <<entries, characters, searches, issued, newest, completed>>

\* Prompt::save_query: the location takes the pairs of the query.
save_query(q) == location' = serialize(q)

\* decode_query: the query of the location and the input to search for.
decode_query(pairs) ==
    LET q == deserialize(pairs)
    IN [query |-> q,
        input |-> IF q.a = <<>> THEN q.q
                  ELSE IF q.i < Len(q.a) THEN q.a[q.i + 1] ELSE q.q]

\* Prompt::handle_analysis
handle_analysis(analysis) ==
    /\ IF analysis # <<>> THEN refresh(analysis[1]) ELSE NoRefresh
    /\ IF query.a # analysis \/ query.i # 0
       THEN /\ query' = [query EXCEPT !.a = analysis, !.i = 0]
            /\ save_query(query')
       ELSE UNCHANGED <<query, location>>

\* Prompt::create: the query of the location is decoded and searched.
PromptInit ==
    /\ db \in {"local", "remote"}
    /\ query = DefaultQuery
    /\ location = <<>>
    /\ entries = <<>>
    /\ characters = <<>>
    /\ analyzing = 0
    /\ issued = <<>>
    /\ searches = (IF db = "local" THEN {} ELSE {<<>>})
    /\ newest = (IF db = "local" THEN "answered" ELSE "pending")
    /\ completed = (db = "local")

\* Msg::Mode(mode)
ModeMsg ==
    /\ db # "none"
    /\ \E mode \in Modes :
          /\ query' = [query EXCEPT !.mode = mode, !.q = process_query(query.q, mode)]
          /\ save_query(query')
    /\ NoRefresh
    /\ UNCHANGED <<db, analyzing>>
    /\ UNCHANGED <<builderVars, conjVars, buildVars, ownedVars, wsVars, dbusVars, lifeVars,
                   queryVars>>

\* Msg::Change(input)
Change ==
    /\ db # "none"
    /\ \E typed \in Inputs :
          LET input == process_query(typed, query.mode)
          IN /\ refresh(input)
             /\ IF query.q # input \/ query.a # <<>>
                THEN /\ query' = [query EXCEPT !.q = input, !.a = <<>>, !.translation = <<>>]
                     /\ save_query(query')
                ELSE UNCHANGED <<query, location>>
    /\ UNCHANGED <<db, analyzing>>
    /\ UNCHANGED <<builderVars, conjVars, buildVars, ownedVars, wsVars, dbusVars, lifeVars,
                   queryVars>>

\* Msg::ForceChange(input, translation)
ForceChange ==
    /\ db # "none"
    /\ \E typed \in Inputs, translation \in Translations :
          LET input == process_query(typed, query.mode)
          IN /\ refresh(input)
             /\ query' = [query EXCEPT !.q = input, !.translation = translation, !.a = <<>>]
             /\ save_query(query')
    /\ UNCHANGED <<db, analyzing>>
    /\ UNCHANGED <<builderVars, conjVars, buildVars, ownedVars, wsVars, dbusVars, lifeVars,
                   queryVars>>

\* Msg::Analyze(i): the local database answers at once, the server later.
Analyze ==
    /\ db # "none"
    /\ IF db = "local"
       THEN /\ \E analysis \in Analyses :
                  IF analysis # <<>>
                  THEN handle_analysis(analysis)
                  ELSE NoRefresh /\ UNCHANGED <<query, location>>
            /\ UNCHANGED analyzing
       ELSE /\ analyzing < MaxInFlight
            /\ analyzing' = analyzing + 1
            /\ NoRefresh
            /\ UNCHANGED <<query, location>>
    /\ UNCHANGED db
    /\ UNCHANGED <<builderVars, conjVars, buildVars, ownedVars, wsVars, dbusVars, lifeVars,
                   queryVars>>

\* Msg::AnalyzeResponse(response)
AnalyzeResponse ==
    /\ analyzing > 0
    /\ analyzing' = analyzing - 1
    /\ \E analysis \in Analyses : handle_analysis(analysis)
    /\ UNCHANGED db
    /\ UNCHANGED <<builderVars, conjVars, buildVars, ownedVars, wsVars, dbusVars, lifeVars,
                   queryVars>>

\* Msg::AnalyzeCycle
AnalyzeCycle ==
    /\ db # "none"
    /\ IF query.i < Len(query.a)
       THEN /\ query' = [query EXCEPT !.i = (query.i + 1) % Len(query.a)]
            /\ save_query(query')
            /\ refresh(query.a[query.i + 1])
       ELSE NoRefresh /\ UNCHANGED <<query, location>>
    /\ UNCHANGED <<db, analyzing>>
    /\ UNCHANGED <<builderVars, conjVars, buildVars, ownedVars, wsVars, dbusVars, lifeVars,
                   queryVars>>

\* Msg::HistoryChanged(location)
HistoryChanged ==
    /\ db # "none"
    /\ query' = decode_query(location).query
    /\ refresh(decode_query(location).input)
    /\ UNCHANGED <<db, analyzing, location>>
    /\ UNCHANGED <<builderVars, conjVars, buildVars, ownedVars, wsVars, dbusVars, lifeVars,
                   queryVars>>

\* Msg::SearchResponse(response): one of the searches in flight resolves.
SearchResponse ==
    /\ \E input \in searches :
          /\ searches' = searches \ {input}
          /\ entries' = sort_by_key(SearchResult(input).entries)
          /\ characters' = SearchResult(input).characters
          /\ newest' = IF input = issued THEN "answered" ELSE newest
    /\ completed' = TRUE
    /\ UNCHANGED <<query, db, analyzing, location, issued>>
    /\ UNCHANGED <<builderVars, conjVars, buildVars, ownedVars, wsVars, dbusVars, lifeVars,
                   queryVars>>

\* Msg::Error(error): a search or an analysis in flight fails.
FetchError ==
    /\ \/ /\ \E input \in searches :
                /\ searches' = searches \ {input}
                /\ newest' = IF input = issued THEN "failed" ELSE newest
          /\ UNCHANGED analyzing
       \/ /\ analyzing > 0
          /\ analyzing' = analyzing - 1
          /\ UNCHANGED <<searches, newest>>
    /\ UNCHANGED <<query, entries, characters, db, location, issued, completed>>
    /\ UNCHANGED <<builderVars, conjVars, buildVars, ownedVars, wsVars, dbusVars, lifeVars,
                   queryVars>>

PromptSpecInit ==
    /\ PromptInit /\ BuilderIdle /\ ConjIdle /\ BuildIdle /\ OwnedIdle /\ WsIdle
    /\ DbusIdle /\ LifeIdle /\ QueryIdle

PromptNext ==
    \/ ModeMsg \/ Change \/ ForceChange \/ Analyze \/ AnalyzeResponse \/ AnalyzeCycle
    \/ HistoryChanged \/ SearchResponse \/ FetchError

PromptSpec == PromptSpecInit /\ [][PromptNext]_vars

\* The prompt shows the result of the search for input.
Shows(input) ==
    /\ entries = sort_by_key(SearchResult(input).entries)
    /\ characters = SearchResult(input).characters

\* Every input a search can be issued for.
SearchInputs ==
    {<<>>} \cup {to_lowercase(process_query(typed, mode)) : typed \in Inputs, mode \in Modes}
      \cup UNION {{to_lowercase(analysis[n]) : n \in 1..Len(analysis)} : analysis \in Analyses}

\* C24: after any sequence of Change and ForceChange messages followed by
\* search responses arriving in any order, the entries and characters shown
\* are those of the most recently issued query: a SearchResponse that
\* answers an older request never replaces the result of a newer request.
C24_NewestQueryShown ==
    (db = "remote" /\ searches = {} /\ newest = "answered") => Shows(issued)

\* Every response has arrived, the latest search was answered, and the
\* prompt shows the result of an older one.
C24_OlderResponseShown ==
    /\ db = "remote"
    /\ searches = {}
    /\ newest = "answered"
    /\ issued # <<>>
    /\ \E input \in SearchInputs \ {issued, <<>>} : Shows(input)

\* The response that arrives last is the one that is shown.
C24_LastResponseShown ==
    [][SearchResponse => \E input \in searches : Shows(input)']_vars

\* C25: after every completed search, the character list and the entry
\* list belong to the same query, and the entry list is sorted in
\* non-decreasing key order, with a local database as with a SearchResponse.
C25_SameQuery ==
    completed =>
        /\ \E input \in SearchInputs : Shows(input)
        /\ \A n \in 1..(Len(entries) - 1) : entries[n].key <= entries[n + 1].key

\* With a local database the entries of a query with characters are shown
\* next to no character at all.
C25_LocalCharactersStale ==
    /\ db = "local"
    /\ completed
    /\ entries = sort_by_key(SearchResult(issued).entries)
    /\ SearchResult(issued).characters # <<>>
    /\ characters = <<>>

\* Answered by the server, entries and characters are those of one query,
\* and with either source the entries are sorted.
C25_SameQueryRemote ==
    /\ (db = "remote" /\ completed) => \E input \in SearchInputs : Shows(input)
    /\ \A n \in 1..(Len(entries) - 1) : entries[n].key <= entries[n + 1].key

\* The index is within the analysis list.
IndexInRange == query.a # <<>> => query.i < Len(query.a)

\* C26: whenever the analysis list query.a is non-empty the index satisfies
\* query.i < len(query.a); AnalyzeCycle advances i by one modulo
\* len(query.a), and after AnalyzeCycle the search that is shown is for the
\* segment query.a[query.i] at the new index, the segment that is
\* highlighted.
C26_CycleShowsHighlighted ==
    /\ []IndexInRange
    /\ [][(AnalyzeCycle /\ query.a # <<>>) =>
              /\ query'.i = (query.i + 1) % Len(query.a)
              /\ issued' = to_lowercase(query'.a[query'.i + 1])]_vars

\* The index stays in range, and AnalyzeCycle advances it by one modulo the
\* length of the list and searches for the segment at the index it leaves.
C26_CycleSearchesPrevious ==
    /\ []IndexInRange
    /\ [][(AnalyzeCycle /\ query.a # <<>>) =>
              /\ query'.i = (query.i + 1) % Len(query.a)
              /\ query'.a = query.a
              /\ issued' = to_lowercase(query.a[query.i + 1])]_vars

\* After AnalyzeCycle on a list of two segments the second is highlighted
\* and the first is searched.
C26_FirstSearchedSecondHighlighted ==
    /\ db = "local"
    /\ Len(query.a) = MaxSegments
    /\ query.i = 1
    /\ query.a[1] # query.a[2]
    /\ issued = to_lowercase(query.a[1])
    /\ newest = "answered"
    /\ entries = sort_by_key(SearchResult(to_lowercase(query.a[1])).entries)

====
